---- MODULE Spec2Model ----
(***************************************************************************)
(* A model of the damon containment engine (jet/damon): the startup ladder *)
(* of container.RunContained, the container's runtime protocol (reaper,    *)
(* WaitForResult, Shutdown), the plugin's task store and the driver        *)
(* operations built on it.                                                 *)
(*                                                                         *)
(* Each component has its own group of variables and its own               *)
(* specification; a specification leaves the other groups at their         *)
(* initial value.                                                          *)
(***************************************************************************)
EXTENDS Integers, Sequences, FiniteSets, TLC

VARIABLES
    rc,         \* the state of one RunContained call (container.go:420-508)
    \* the container at run time
    child,      \* the child process: "running" or "exited"
    childCode,  \* the exit code the child left with
    pDoneCh,    \* Process.doneCh: "nil", "open" or "closed"
    pExitCh,    \* Process.exitCh: "nil" or "made" (buffered, capacity 1)
    exitBuf,    \* the timeouts buffered in Process.exitCh
    pResult,    \* Process.result
    reaper,     \* where the reaper goroutine is (Container.wait, Process.Wait)
    watcher,    \* where the goroutine started by Process.Wait is
    cResult,    \* Container.result
    cDoneCh,    \* Container.doneCh: "open" or "closed"
    sh,         \* the Shutdown callers
    wf,         \* the WaitForResult callers; dones: whether no call, one call or
                \* more calls of this caller have returned through done;
                \* detached: a call of this caller has
                \* returned on cancellation while the child was running
    log,        \* the console-breaks and kills issued, in order
    \* the task store under its lock (part_008)
    ts,         \* taskStore.store: task ID -> handle, "absent" or "torn"
    mu,         \* taskStore.mu: the writer (0: none) and the readers
    tsCall,     \* the goroutines calling Put, Get and Delete
    seqStore,   \* the map a sequential store holds: each call takes effect on
                \* it at one instant between its invocation and its return
    \* the driver plugin (driver.go, dev_null.go)
    taskStore,  \* DriverPlugin.taskStore: task ID -> handle (0: no entry)
    hd,         \* the taskHandles made, each with its container and child
    st,         \* the StartTask calls
    wt,         \* the WaitTask calls and their handleWait goroutines
    dt,         \* the DestroyTask calls
    sp,         \* the StopTask call
    driverCtx,  \* DriverPlugin.ctx: "live" or "cancelled"
    plugin,     \* the plugin process: where NewDriverPlugin is, its own job
                \* object, and the driver it returned
    \* Container.Exec and Task.Wait (container.go, task.go), ExecTask
    ex,         \* one call of Container.Exec
    aux,        \* the auxiliary process Exec starts
    tw,         \* one call of Task.Wait and the goroutine it starts
    et,         \* one call of DriverPlugin.ExecTask
    mainChild,  \* the container's main child: "running" or "exited"
    \* DriverPlugin.SignalTask (driver.go)
    sg,         \* one call of SignalTask
    sgProc,     \* the child of the task it signals
    \* win32.MHzToCPURate (job_object_info.go)
    rt,         \* one call of MHzToCPURate
    \* metrics.CPUCollector (part_003)
    cs,         \* one CPUCollector, its sensor and the last sample it made
    \* Container.PollStats and Container.PollViolations (container.go)
    po,         \* the polled container: child, done, completion port, pollers
    \* DriverPlugin.TaskStats and taskHandle.handleStats (driver.go, dev_null.go)
    sx,         \* one task: the end of its StartTask, its metrics, its TaskStats calls
    \* win32.GetSystemResources (part_022)
    sr,         \* the Once, systemResources, the process and the callers
    \* the violation classifier (job_object_info_win32.go, container.go)
    vc,         \* the port, the messages taken and the violations delivered
    \* metrics.Metrics (part_003)
    mx          \* perfLock, the perfCounters snapshot and its callers

ladderVars == <<rc>>
containerVars == <<child, childCode, pDoneCh, pExitCh, exitBuf, pResult, reaper,
                   watcher, cResult, cDoneCh, sh, wf, log>>
storeVars == <<ts, mu, tsCall, seqStore>>
driverVars == <<taskStore, hd, st, wt, dt, sp, driverCtx, plugin>>
execVars == <<ex, aux, tw, et, mainChild>>
signalVars == <<sg, sgProc>>
rateVars == <<rt>>
sampleVars == <<cs>>
pollVars == <<po>>
statsVars == <<sx>>
resVars == <<sr>>
classifyVars == <<vc>>
metricsVars == <<mx>>
vars == <<ladderVars,
          containerVars,
          storeVars,
          driverVars,
          execVars,
          signalVars,
          rateVars,
          sampleVars,
          pollVars,
          statsVars,
          resVars,
          classifyVars,
          metricsVars>>

\* What the actions of a component leave alone: the other components.
notLadder == <<containerVars, storeVars, driverVars, execVars, signalVars, rateVars,
    sampleVars, pollVars,
    statsVars,
    resVars,
    classifyVars,
    metricsVars>>
notContainer == <<ladderVars, storeVars, driverVars, execVars, signalVars, rateVars,
    sampleVars, pollVars,
    statsVars,
    resVars,
    classifyVars,
    metricsVars>>
notStore == <<ladderVars, containerVars, driverVars, execVars, signalVars, rateVars,
    sampleVars, pollVars,
    statsVars,
    resVars,
    classifyVars,
    metricsVars>>
notDriver == <<ladderVars, containerVars, storeVars, execVars, signalVars, rateVars,
    sampleVars, pollVars,
    statsVars,
    resVars,
    classifyVars,
    metricsVars>>
notExec == <<ladderVars, containerVars, storeVars, driverVars, signalVars, rateVars,
    sampleVars, pollVars,
    statsVars,
    resVars,
    classifyVars,
    metricsVars>>
notSignal == <<ladderVars, containerVars, storeVars, driverVars, execVars, rateVars,
    sampleVars, pollVars,
    statsVars,
    resVars,
    classifyVars,
    metricsVars>>
notRate == <<ladderVars, containerVars, storeVars, driverVars, execVars, signalVars,
    sampleVars, pollVars,
    statsVars,
    resVars,
    classifyVars,
    metricsVars>>
notSample == <<ladderVars, containerVars, storeVars, driverVars, execVars, signalVars,
    rateVars, pollVars,
    statsVars,
    resVars,
    classifyVars,
    metricsVars>>
notPoll == <<ladderVars, containerVars, storeVars, driverVars, execVars, signalVars,
    rateVars, sampleVars,
    statsVars,
    resVars,
    classifyVars,
    metricsVars>>
notStats == <<ladderVars,
    containerVars,
    storeVars,
    driverVars,
    execVars,
    signalVars,
    rateVars,
    sampleVars,
    pollVars,
    resVars,
    classifyVars,
    metricsVars>>
notRes == <<ladderVars,
    containerVars,
    storeVars,
    driverVars,
    execVars,
    signalVars,
    rateVars,
    sampleVars,
    pollVars,
    statsVars,
    classifyVars,
    metricsVars>>
notClassify == <<ladderVars,
    containerVars,
    storeVars,
    driverVars,
    execVars,
    signalVars,
    rateVars,
    sampleVars,
    pollVars,
    statsVars,
    resVars,
    metricsVars>>
notMetrics == <<ladderVars,
    containerVars,
    storeVars,
    driverVars,
    execVars,
    signalVars,
    rateVars,
    sampleVars,
    pollVars,
    statsVars,
    resVars,
    classifyVars>>

\* container.go:351
MinimumCPUMHz == 100

\* The CPU limits (MHz) and memory limits (MiB) a Config is drawn from.
CPUMHzLimits == {0, 99, 100, 2048}
MemoryMBLimits == {0, 128}

\* container.Config (container.go:329-348): the fields RunContained reads.
Configs ==
    [RestrictedToken : BOOLEAN, EnforceCPU : BOOLEAN, EnforceMemory : BOOLEAN,
     CPUMHzLimit : CPUMHzLimits, MemoryMBLimit : MemoryMBLimits]

(***************************************************************************)
(* RunContained.  rc.pc is the next rung; a handle is "none" (never        *)
(* opened), "open" or "closed"; the child is "none", "suspended",          *)
(* "running" or "killed".  rc.ret is "none" while the call runs, then      *)
(* "ok" or "err".  rc.execToken is "none" until Exec spawns on the         *)
(* container, then the state the token handle was in at that spawn.        *)
(* rc.PID and rc.StartTime are Container.PID and Container.StartTime;      *)
(* psPoll and pvPoll are "none" until taskHandle.run starts PollStats and  *)
(* PollViolations, then "polling", then "delivered" once the poller has    *)
(* handed its first record to its callback; psSeen and pvSeen are the PID  *)
(* and the start time the poller found at that moment.                     *)
(***************************************************************************)
\* What an observer has seen of Container.PID and Container.StartTime before
\* it has looked.
Unobserved == [PID |-> "unset", StartTime |-> "zero"]

RCStart(c) ==
    [pc |-> "CreateJobObject", cfg |-> c,
     hJob |-> "none", hCompletion |-> "none",
     hToken |-> "none", hRestricted |-> "none", deferToken |-> "none",
     hProc |-> "none", child |-> "none", containerProc |-> FALSE,
     inJob |-> FALSE, killOnJobClose |-> FALSE, memoryLimit |-> FALSE,
     notifyCPU |-> FALSE, cpuRate |-> FALSE,
     reaper |-> FALSE, ret |-> "none", execToken |-> "none",
     PID |-> "unset", StartTime |-> "zero",
     psPoll |-> "none", pvPoll |-> "none", psSeen |-> Unobserved, pvSeen |-> Unobserved]

ChildAlive(s) == s.child \in {"suspended", "running"}

\* Process.Kill (part_015:207-211): TerminateProcess on the child.
ProcKill(s) == [s EXCEPT !.child = IF ChildAlive(s) THEN "killed" ELSE @]

\* Container.killOnError (container.go:686-691), on a non-nil error: kills
\* container.proc.
KillOnError(s) == IF s.containerProc THEN ProcKill(s) ELSE s

\* JobObject.Close (part_018:213-218) through logWrapper.CloseLogError: closes
\* the job handle and its completion port.  The kernel kills the processes of a
\* job whose last handle closes when kill-on-job-close is set.
CloseJob(s) ==
    [s EXCEPT !.hJob = "closed", !.hCompletion = "closed",
              !.child = IF s.inJob /\ s.killOnJobClose /\ ChildAlive(s)
                        THEN "killed" ELSE @]

\* The deferred close of the token in use (container.go:451) runs on every
\* return after it was registered, an error return or not.
RunDefers(s) ==
    CASE s.deferToken = "token"      -> [s EXCEPT !.hToken = "closed"]
      [] s.deferToken = "restricted" -> [s EXCEPT !.hRestricted = "closed"]
      [] OTHER                       -> s

\* A return of RunContained with result r.
Return(s, r) == [RunDefers(s) EXCEPT !.pc = "returned", !.ret = r]

\* container.token (container.go:452): the handle of the token in use, the
\* restricted one if one was made.
ContainerToken(s) == IF s.cfg.RestrictedToken THEN s.hRestricted ELSE s.hToken

\* Container.Exec on the container RunContained returned (container.go:671):
\* StartProcess is called with win32.AccessToken(c.token).
Exec_SpawnWithToken ==
    /\ rc.pc = "returned"
    /\ rc.ret = "ok"
    /\ rc.execToken = "none"
    /\ rc' = [rc EXCEPT !.execToken = ContainerToken(rc)]
    /\ UNCHANGED notLadder

\* win32.CreateJobObject (part_018:235-251): the job handle, then the
\* completion port, then their association; a failure closes what it opened.
RC_CreateJobObject ==
    /\ rc.pc = "CreateJobObject"
    /\ \/ rc' = Return(rc, "err")
       \/ rc' = Return([rc EXCEPT !.hJob = "closed"], "err")
       \/ rc' = Return([rc EXCEPT !.hJob = "closed", !.hCompletion = "closed"], "err")
       \/ rc' = [rc EXCEPT !.hJob = "open", !.hCompletion = "open",
                           !.pc = "CurrentProcessToken"]
    /\ UNCHANGED notLadder

\* container.go:428-431
RC_CurrentProcessToken ==
    /\ rc.pc = "CurrentProcessToken"
    /\ \/ rc' = Return(rc, "err")
       \/ rc' = [rc EXCEPT !.hToken = "open",
                           !.deferToken = IF rc.cfg.RestrictedToken THEN @ ELSE "token",
                           !.pc = IF rc.cfg.RestrictedToken
                                  THEN "CreateRestrictedToken" ELSE "StartProcess"]
    /\ UNCHANGED notLadder

\* container.go:436-451: the original token is closed whether or not the
\* restricted one could be made.
RC_CreateRestrictedToken ==
    /\ rc.pc = "CreateRestrictedToken"
    /\ \/ rc' = Return([rc EXCEPT !.hToken = "closed"], "err")
       \/ rc' = [rc EXCEPT !.hToken = "closed", !.hRestricted = "open",
                           !.deferToken = "restricted", !.pc = "StartProcess"]
    /\ UNCHANGED notLadder

\* container.go:453-456: the child is created suspended.
RC_StartProcess ==
    /\ rc.pc = "StartProcess"
    /\ \/ rc' = Return(rc, "err")
       \/ rc' = [rc EXCEPT !.hProc = "open", !.child = "suspended", !.pc = "Assign"]
    /\ UNCHANGED notLadder

\* container.go:457-462
RC_Assign ==
    /\ rc.pc = "Assign"
    /\ \/ rc' = Return(ProcKill(rc), "err")
       \/ rc' = [rc EXCEPT !.inJob = TRUE, !.containerProc = TRUE,
                           !.PID = "set", !.pc = "SetExtendedLimit"]
    /\ UNCHANGED notLadder

\* container.go:463-473
RC_SetExtendedLimit ==
    /\ rc.pc = "SetExtendedLimit"
    /\ \/ rc' = Return(CloseJob(KillOnError(rc)), "err")
       \/ rc' = [rc EXCEPT !.killOnJobClose = TRUE,
                           !.memoryLimit = rc.cfg.EnforceMemory /\ rc.cfg.MemoryMBLimit > 0,
                           !.pc = "CheckCPU"]
    /\ UNCHANGED notLadder

\* RC_CheckCPU with the two CPU limits left out: a valid limit goes straight
\* to the resume.
RC_CheckCPU_ThenResume ==
    /\ rc.pc = "CheckCPU"
    /\ \/ /\ ~rc.cfg.EnforceCPU
          /\ rc' = [rc EXCEPT !.pc = "Resume"]
       \/ /\ rc.cfg.EnforceCPU
          /\ rc.cfg.CPUMHzLimit < MinimumCPUMHz
          /\ rc' = Return(rc, "err")
       \/ /\ rc.cfg.EnforceCPU
          /\ rc.cfg.CPUMHzLimit >= MinimumCPUMHz
          /\ rc' = [rc EXCEPT !.pc = "Resume"]
    /\ UNCHANGED notLadder

\* container.go:474-477: the validation of the CPU limit, made after the child
\* was spawned and assigned.
RC_CheckCPU ==
    /\ rc.pc = "CheckCPU"
    /\ \/ /\ ~rc.cfg.EnforceCPU
          /\ rc' = [rc EXCEPT !.pc = "Resume"]
       \/ /\ rc.cfg.EnforceCPU
          /\ rc.cfg.CPUMHzLimit < MinimumCPUMHz
          /\ rc' = Return(rc, "err")
       \/ /\ rc.cfg.EnforceCPU
          /\ rc.cfg.CPUMHzLimit >= MinimumCPUMHz
          /\ rc' = [rc EXCEPT !.pc = "SetNotificationLimit"]
    /\ UNCHANGED notLadder

\* container.go:491-494
RC_SetNotificationLimit ==
    /\ rc.pc = "SetNotificationLimit"
    /\ \/ rc' = Return(CloseJob(KillOnError(rc)), "err")
       \/ rc' = [rc EXCEPT !.notifyCPU = TRUE, !.pc = "SetCPURate"]
    /\ UNCHANGED notLadder

\* container.go:495-498
RC_SetCPURate ==
    /\ rc.pc = "SetCPURate"
    /\ \/ rc' = Return(CloseJob(KillOnError(rc)), "err")
       \/ rc' = [rc EXCEPT !.cpuRate = TRUE, !.pc = "Resume"]
    /\ UNCHANGED notLadder

\* RC_Resume with the start time left for later.
RC_Resume_NoStartTime ==
    /\ rc.pc = "Resume"
    /\ \/ rc' = Return(CloseJob(KillOnError(rc)), "err")
       \/ rc' = Return([rc EXCEPT !.child = "running", !.reaper = TRUE], "ok")
    /\ UNCHANGED notLadder

\* container.go:500-507: resume, take the start time, then start the reaper
\* and return the container.
RC_Resume ==
    /\ rc.pc = "Resume"
    /\ \/ rc' = Return(CloseJob(KillOnError(rc)), "err")
       \/ rc' = Return([rc EXCEPT !.child = "running", !.StartTime = "set",
                                  !.reaper = TRUE], "ok")
    /\ UNCHANGED notLadder

\* taskHandle.run on the container RunContained returned
\* (dev_null.go:109-112): 'go h.container.PollStats(...)'.
Run_GoPollStats ==
    /\ rc.pc = "returned" /\ rc.ret = "ok"
    /\ rc.psPoll = "none"
    /\ rc' = [rc EXCEPT !.psPoll = "polling"]
    /\ UNCHANGED notLadder

\* dev_null.go:113: 'go h.container.PollViolations(m.OnViolation)'.
Run_GoPollViolations ==
    /\ rc.pc = "returned" /\ rc.ret = "ok"
    /\ rc.psPoll # "none" /\ rc.pvPoll = "none"
    /\ rc' = [rc EXCEPT !.pvPoll = "polling"]
    /\ UNCHANGED notLadder

\* Container.PollStats (container.go:563-606): the first sample, built from
\* time.Since(c.StartTime), is handed to the callback.
PollStats_FirstRecord ==
    /\ rc.psPoll = "polling"
    /\ rc' = [rc EXCEPT !.psPoll = "delivered",
                        !.psSeen = [PID |-> rc.PID, StartTime |-> rc.StartTime]]
    /\ UNCHANGED notLadder

\* Container.PollViolations (container.go:517-554): the first violation is
\* handed to the callback.
PollViolations_FirstRecord ==
    /\ rc.pvPoll = "polling"
    /\ rc' = [rc EXCEPT !.pvPoll = "delivered",
                        !.pvSeen = [PID |-> rc.PID, StartTime |-> rc.StartTime]]
    /\ UNCHANGED notLadder


(***************************************************************************)
(* The container at run time: the state after a successful RunContained.   *)
(* The reaper goroutine is Container.wait around Process.Wait; the watcher *)
(* is the goroutine Process.Wait starts; Shutdown and WaitForResult are    *)
(* called by other goroutines.                                             *)
(***************************************************************************)

\* part_015:17-19
ExitStatusError == 254
ExitStatusUnknown == 255

\* The exit codes a child leaves with on its own.
ExitCodes == {0, 2}
\* os.Process.Kill on Windows: TerminateProcess(handle, 1).
KilledExitCode == 1

\* The concurrent callers of Shutdown (one call each) and of WaitForResult
\* (any number of calls each, one after the other).
NWaiters == 1

ShutdownCallers == {1, 2}
Waiters == 1..NWaiters

\* What WaitForResult returned: ExitStatus, the error ("nil" or "canceled"),
\* and whether the Result it read had been written by the reaper.
NoRet == [ExitStatus |-> 0, err |-> "none", written |-> FALSE]

\* What os.Process.Wait returns for the state: nil with an error, or a
\* ProcessState, which on Windows always reports Exited().
NilState == [nil |-> TRUE, Exited |-> FALSE, ExitCode |-> 0]
ProcessState(code) == [nil |-> FALSE, Exited |-> TRUE, ExitCode |-> code]

\* getExitCode (part_015:147-155)
getExitCode(state, err) ==
    IF ~state.nil /\ state.Exited THEN state.ExitCode
    ELSE IF err THEN ExitStatusError
    ELSE ExitStatusUnknown

\* A console-break or a kill, as the child's process (group) receives it.
BreakEvent == [ev |-> "break", by |-> "watcher", timedOut |-> FALSE, alive |-> child = "running"]
KillEvent(who, timedOut) ==
    [ev |-> "kill", by |-> who, timedOut |-> timedOut, alive |-> child = "running"]

\* os.Process.Kill: a running child ends with exit code 1; an exited one is
\* left as it is.
OsKill(who, timedOut) ==
    /\ log' = Append(log, KillEvent(who, timedOut))
    /\ child' = IF child = "running" THEN "exited" ELSE child
    /\ childCode' = IF child = "running" THEN KilledExitCode ELSE childCode

\* The child exits on its own.
Child_Exit ==
    /\ child = "running"
    /\ \E code \in ExitCodes : childCode' = code
    /\ child' = "exited"
    /\ UNCHANGED <<pDoneCh, pExitCh, exitBuf, pResult, reaper, watcher, cResult,
                   cDoneCh, sh, wf, log>>
    /\ UNCHANGED notContainer

\* Process.Wait, first caller (part_015:99-107): doneCh, then exitCh, are made
\* under waitLock, which Shutdown does not take.
Wait_MakeDoneCh ==
    /\ reaper = "start"
    /\ pDoneCh' = "open"
    /\ reaper' = "makeExitCh"
    /\ UNCHANGED <<child, childCode, pExitCh, exitBuf, pResult, watcher, cResult,
                   cDoneCh, sh, wf, log>>
    /\ UNCHANGED notContainer

\* part_015:106-108: exitCh is made and the watcher goroutine started.
Wait_MakeExitCh ==
    /\ reaper = "makeExitCh"
    /\ pExitCh' = "made"
    /\ watcher' = "select1"
    /\ reaper' = "osWait"
    /\ UNCHANGED <<child, childCode, pDoneCh, exitBuf, pResult, cResult,
                   cDoneCh, sh, wf, log>>
    /\ UNCHANGED notContainer

\* part_015:137-143: osProcess.Wait returns once the child has exited, with its
\* state or with an error; the result is stored.
Wait_Reap ==
    /\ reaper = "osWait"
    /\ child = "exited"
    /\ \E err \in BOOLEAN :
          pResult' = [set |-> TRUE, Err |-> err,
                      ExitStatus |-> getExitCode(IF err THEN NilState
                                                 ELSE ProcessState(childCode), err)]
    /\ reaper' = "closeProcDone"
    /\ UNCHANGED <<child, childCode, pDoneCh, pExitCh, exitBuf, watcher, cResult,
                   cDoneCh, sh, wf, log>>
    /\ UNCHANGED notContainer

\* part_015:134: the deferred close(p.doneCh), as Process.Wait returns.
Wait_CloseDone ==
    /\ reaper = "closeProcDone"
    /\ pDoneCh' = "closed"
    /\ reaper' = "setResult"
    /\ UNCHANGED <<child, childCode, pExitCh, exitBuf, pResult, watcher, cResult,
                   cDoneCh, sh, wf, log>>
    /\ UNCHANGED notContainer

\* A reaper that fires done before it has written the result.
wait_SetResult_DoneFirst ==
    /\ reaper = "setResult"
    /\ cDoneCh' = "closed"
    /\ reaper' = "closeDone"
    /\ UNCHANGED <<child, childCode, pDoneCh, pExitCh, exitBuf, pResult, watcher,
                   cResult, sh, wf, log>>
    /\ UNCHANGED notContainer

\* Container.wait (container.go:613-624).  Process.Wait returns a nil error on
\* every path, so the result written is the exit status.
wait_SetResult ==
    /\ reaper = "setResult"
    /\ cResult' = [written |-> TRUE, ExitStatus |-> pResult.ExitStatus]
    /\ reaper' = "closeDone"
    /\ UNCHANGED <<child, childCode, pDoneCh, pExitCh, exitBuf, pResult, watcher,
                   cDoneCh, sh, wf, log>>
    /\ UNCHANGED notContainer

\* A reaper that finishes without closing c.doneCh.
wait_CloseDone_Forgotten ==
    /\ reaper = "closeDone"
    /\ cDoneCh' = cDoneCh
    /\ reaper' = "finished"
    /\ UNCHANGED <<child, childCode, pDoneCh, pExitCh, exitBuf, pResult, watcher,
                   cResult, sh, wf, log>>
    /\ UNCHANGED notContainer

\* container.go:612: the deferred close(c.doneCh).
wait_CloseDone ==
    /\ reaper = "closeDone"
    /\ cDoneCh' = "closed"
    /\ reaper' = "finished"
    /\ UNCHANGED <<child, childCode, pDoneCh, pExitCh, exitBuf, pResult, watcher,
                   cResult, sh, wf, log>>
    /\ UNCHANGED notContainer

\* The watcher goroutine (part_015:108-133), first select.
Watcher_ExitRequested ==
    /\ watcher = "select1"
    /\ exitBuf # <<>>
    /\ exitBuf' = Tail(exitBuf)
    /\ watcher' = "break"
    /\ UNCHANGED <<child, childCode, pDoneCh, pExitCh, pResult, reaper, cResult,
                   cDoneCh, sh, wf, log>>
    /\ UNCHANGED notContainer

Watcher_DoneFirst ==
    /\ watcher = "select1"
    /\ pDoneCh = "closed"
    /\ watcher' = "end"
    /\ UNCHANGED <<child, childCode, pDoneCh, pExitCh, exitBuf, pResult, reaper,
                   cResult, cDoneCh, sh, wf, log>>
    /\ UNCHANGED notContainer

\* part_015:120 and 125: generateConsoleCtrlEvent succeeds, and the second
\* select is entered; a doneCh closed by then is ready at once.
Watcher_Break ==
    /\ watcher = "break"
    /\ log' = Append(log, BreakEvent)
    /\ watcher' = IF pDoneCh = "closed" THEN "end" ELSE "select2"
    /\ UNCHANGED <<child, childCode, pDoneCh, pExitCh, exitBuf, pResult, reaper,
                   cResult, cDoneCh, sh, wf>>
    /\ UNCHANGED notContainer

\* part_015:120-124: generateConsoleCtrlEvent fails: "kill now".
Watcher_BreakFailed ==
    /\ watcher = "break"
    /\ OsKill("watcher", FALSE)
    /\ watcher' = "end"
    /\ UNCHANGED <<pDoneCh, pExitCh, exitBuf, pResult, reaper, cResult, cDoneCh,
                   sh, wf>>
    /\ UNCHANGED notContainer

\* part_015:125-128
Watcher_DoneSecond ==
    /\ watcher = "select2"
    /\ pDoneCh = "closed"
    /\ watcher' = "end"
    /\ UNCHANGED <<child, childCode, pDoneCh, pExitCh, exitBuf, pResult, reaper,
                   cResult, cDoneCh, sh, wf, log>>
    /\ UNCHANGED notContainer

\* part_015:129-131: the timeout received has elapsed.
Watcher_Timeout ==
    /\ watcher = "select2"
    /\ OsKill("watcher", TRUE)
    /\ watcher' = "end"
    /\ UNCHANGED <<pDoneCh, pExitCh, exitBuf, pResult, reaper, cResult, cDoneCh,
                   sh, wf>>
    /\ UNCHANGED notContainer

\* Process.Shutdown (part_015:184-191) through Container.Shutdown
\* (container.go:641-644): the non-blocking send of the timeout.  A nil exitCh
\* or a full one takes the default branch.  The call then selects on the
\* doneCh it reads (part_015:192-193): a nil one is never ready, and a closed
\* one is ready at once, before the timer of a positive timeout can be.
\* tag tells when the call was made: "late" after the reaper has completed,
\* else "first" when no other Shutdown had been called, else "next".
Shutdown_Call(i) ==
    /\ sh[i].pc = "idle"
    /\ exitBuf' = IF pExitCh = "made" /\ Len(exitBuf) < 1
                  THEN Append(exitBuf, "timeout") ELSE exitBuf
    /\ LET tag == IF reaper = "finished" THEN "late"
                  ELSE IF \A j \in ShutdownCallers \ {i} : sh[j].pc = "idle"
                       THEN "first" ELSE "next"
       IN  sh' = [sh EXCEPT ![i] =
                     IF pDoneCh = "closed"
                     THEN [pc |-> "returned", doneCh |-> "nil", ret |-> "nil",
                           tag |-> tag]
                     ELSE [pc |-> "select",
                           doneCh |-> IF pDoneCh = "nil" THEN "nil" ELSE "chan",
                           ret |-> "none", tag |-> tag]]
    /\ UNCHANGED <<child, childCode, pDoneCh, pExitCh, pResult, reaper, watcher,
                   cResult, cDoneCh, wf, log>>
    /\ UNCHANGED notContainer

\* part_015:193-195
Shutdown_Done(i) ==
    /\ sh[i].pc = "select"
    /\ sh[i].doneCh = "chan"
    /\ pDoneCh = "closed"
    /\ sh' = [sh EXCEPT ![i].pc = "returned", ![i].doneCh = "nil", ![i].ret = "nil"]
    /\ UNCHANGED <<child, childCode, pDoneCh, pExitCh, exitBuf, pResult, reaper,
                   watcher, cResult, cDoneCh, wf, log>>
    /\ UNCHANGED notContainer

\* part_015:196-198: the timeout has elapsed since the call.
Shutdown_Timeout(i) ==
    /\ sh[i].pc = "select"
    /\ OsKill("shutdown", TRUE)
    /\ sh' = [sh EXCEPT ![i].pc = "returned", ![i].doneCh = "nil",
                        ![i].ret = IF child = "running" THEN "nil" ELSE "error"]
    /\ UNCHANGED <<pDoneCh, pExitCh, exitBuf, pResult, reaper, watcher, cResult,
                   cDoneCh, wf>>
    /\ UNCHANGED notContainer

\* Container.WaitForResult (container.go:627-639): the call blocks in select.
WaitForResult_Call(i) ==
    /\ wf[i].pc = "idle"
    /\ wf' = [wf EXCEPT ![i].pc = "waiting", ![i].cancelled = FALSE,
                        ![i].ret = NoRet]
    /\ UNCHANGED <<child, childCode, pDoneCh, pExitCh, exitBuf, pResult, reaper,
                   watcher, cResult, cDoneCh, sh, log>>
    /\ UNCHANGED notContainer

\* The caller's context is cancelled.
Context_Cancel(i) ==
    /\ wf[i].pc = "waiting"
    /\ ~wf[i].cancelled
    /\ wf' = [wf EXCEPT ![i].cancelled = TRUE]
    /\ UNCHANGED <<child, childCode, pDoneCh, pExitCh, exitBuf, pResult, reaper,
                   watcher, cResult, cDoneCh, sh, log>>
    /\ UNCHANGED notContainer

\* The mutation of WaitForResult_Done that hands the cached Result out once:
\* the call that reads it resets it.
WaitForResult_Done_Consumes(i) ==
    /\ wf[i].pc = "waiting"
    /\ cDoneCh = "closed"
    /\ wf' = [wf EXCEPT ![i].pc = "idle", ![i].cancelled = FALSE,
                        ![i].dones = IF @ = "none" THEN "once" ELSE "again",
                        ![i].ret = [ExitStatus |-> cResult.ExitStatus, err |-> "nil",
                                    written |-> cResult.written]]
    /\ cResult' = [written |-> FALSE, ExitStatus |-> 0]
    /\ UNCHANGED <<child, childCode, pDoneCh, pExitCh, exitBuf, pResult, reaper,
                   watcher, cDoneCh, sh, log>>
    /\ UNCHANGED notContainer

\* container.go:632-633
WaitForResult_Done(i) ==
    /\ wf[i].pc = "waiting"
    /\ cDoneCh = "closed"
    /\ wf' = [wf EXCEPT ![i].pc = "idle", ![i].cancelled = FALSE,
                        ![i].dones = IF @ = "none" THEN "once" ELSE "again",
                        ![i].ret = [ExitStatus |-> cResult.ExitStatus, err |-> "nil",
                                    written |-> cResult.written]]
    /\ UNCHANGED <<child, childCode, pDoneCh, pExitCh, exitBuf, pResult, reaper,
                   watcher, cResult, cDoneCh, sh, log>>
    /\ UNCHANGED notContainer

\* A cancelled wait that kills the child, as Task.Wait does (task.go:45-47).
WaitForResult_CancelledKills(i) ==
    /\ wf[i].pc = "waiting"
    /\ wf[i].cancelled
    /\ OsKill("wait", FALSE)
    /\ wf' = [wf EXCEPT ![i].pc = "idle", ![i].cancelled = FALSE,
                        ![i].detached = @ \/ child = "running",
                        ![i].ret = [ExitStatus |-> -1, err |-> "canceled",
                                    written |-> FALSE]]
    /\ UNCHANGED <<pDoneCh, pExitCh, exitBuf, pResult, reaper, watcher, cResult,
                   cDoneCh, sh>>
    /\ UNCHANGED notContainer

\* container.go:634-637
WaitForResult_Cancelled(i) ==
    /\ wf[i].pc = "waiting"
    /\ wf[i].cancelled
    /\ wf' = [wf EXCEPT ![i].pc = "idle", ![i].cancelled = FALSE,
                        ![i].detached = @ \/ child = "running",
                        ![i].ret = [ExitStatus |-> -1, err |-> "canceled",
                                    written |-> FALSE]]
    /\ UNCHANGED <<child, childCode, pDoneCh, pExitCh, exitBuf, pResult, reaper,
                   watcher, cResult, cDoneCh, sh, log>>
    /\ UNCHANGED notContainer

\* The container RunContained returns (container.go:504-507): the child runs,
\* doneCh is made, the reaper goroutine is started and has not run yet.
ContainerInit ==
    /\ child = "running"
    /\ childCode = 0
    /\ pDoneCh = "nil"
    /\ pExitCh = "nil"
    /\ exitBuf = <<>>
    /\ pResult = [set |-> FALSE, Err |-> FALSE, ExitStatus |-> 0]
    /\ reaper = "start"
    /\ watcher = "none"
    /\ cResult = [written |-> FALSE, ExitStatus |-> 0]
    /\ cDoneCh = "open"
    /\ sh = [i \in ShutdownCallers |->
                [pc |-> "idle", doneCh |-> "nil", ret |-> "none", tag |-> "none"]]
    /\ wf = [i \in Waiters |->
                [pc |-> "idle", cancelled |-> FALSE, detached |-> FALSE,
                 dones |-> "none", ret |-> NoRet]]
    /\ log = <<>>

ContainerNext ==
    \/ Child_Exit
    \/ Wait_MakeDoneCh
    \/ Wait_MakeExitCh
    \/ Wait_Reap
    \/ Wait_CloseDone
    \/ wait_SetResult
    \/ wait_CloseDone
    \/ Watcher_ExitRequested
    \/ Watcher_DoneFirst
    \/ Watcher_Break
    \/ Watcher_BreakFailed
    \/ Watcher_DoneSecond
    \/ Watcher_Timeout
    \/ \E i \in ShutdownCallers : Shutdown_Call(i)
    \/ \E i \in ShutdownCallers : Shutdown_Done(i)
    \/ \E i \in ShutdownCallers : Shutdown_Timeout(i)
    \/ \E i \in Waiters : WaitForResult_Call(i)
    \/ \E i \in Waiters : Context_Cancel(i)
    \/ \E i \in Waiters : WaitForResult_Done(i)
    \/ \E i \in Waiters : WaitForResult_Cancelled(i)

(***************************************************************************)
(* taskStore (part_008:68-96): a map guarded by a sync.RWMutex.  A write   *)
(* of a Go map is not atomic: while it is in progress the entry is "torn", *)
(* and a read that overlaps it may see that.                               *)
(***************************************************************************)

TaskIDs == {"t1", "t2"}
\* The goroutines that call the store, and the handles they put.
NStoreCallers == 2
StoreCallers == 1..NStoreCallers
StoreHandles == {"h1", "h2"}

IdleCall == [pc |-> "idle", op |-> "none", id |-> "t1", h |-> "absent",
             got |-> "none", seq |-> "none"]

\* sync.RWMutex: Lock waits for the writer and the readers to leave.
Lock(t) ==
    /\ mu.writer = 0
    /\ mu.readers = {}
    /\ mu' = [mu EXCEPT !.writer = t]

Unlock(t) == mu' = [mu EXCEPT !.writer = 0]

\* An RLock that does not wait for the writer.
RLock_IgnoresWriter(t) ==
    mu' = [mu EXCEPT !.readers = @ \cup {t}]

\* sync.RWMutex: RLock waits for the writer to leave.
RLock(t) ==
    /\ mu.writer = 0
    /\ mu' = [mu EXCEPT !.readers = @ \cup {t}]

RUnlock(t) == mu' = [mu EXCEPT !.readers = @ \ {t}]

\* taskStore.Put (part_008:79-81): Lock, and the map assignment begins.
Put_Begin(t, id, h) ==
    /\ tsCall[t].pc = "idle"
    /\ Lock(t)
    /\ ts' = [ts EXCEPT ![id] = "torn"]
    /\ tsCall' = [tsCall EXCEPT ![t] = [IdleCall EXCEPT !.pc = "writing",
                                        !.op = "Put", !.id = id, !.h = h]]
    /\ UNCHANGED seqStore
    /\ UNCHANGED notStore

\* part_008:81-83: the assignment completes, Unlock.
Put_End(t) ==
    /\ tsCall[t].pc = "writing"
    /\ tsCall[t].op = "Put"
    /\ ts' = [ts EXCEPT ![tsCall[t].id] = tsCall[t].h]
    /\ seqStore' = [seqStore EXCEPT ![tsCall[t].id] = tsCall[t].h]
    /\ Unlock(t)
    /\ tsCall' = [tsCall EXCEPT ![t].pc = "idle"]
    /\ UNCHANGED notStore

\* taskStore.Delete (part_008:85-87)
Delete_Begin(t, id) ==
    /\ tsCall[t].pc = "idle"
    /\ Lock(t)
    /\ ts' = [ts EXCEPT ![id] = "torn"]
    /\ tsCall' = [tsCall EXCEPT ![t] = [IdleCall EXCEPT !.pc = "writing",
                                        !.op = "Delete", !.id = id]]
    /\ UNCHANGED seqStore
    /\ UNCHANGED notStore

\* part_008:87-89
Delete_End(t) ==
    /\ tsCall[t].pc = "writing"
    /\ tsCall[t].op = "Delete"
    /\ ts' = [ts EXCEPT ![tsCall[t].id] = "absent"]
    /\ seqStore' = [seqStore EXCEPT ![tsCall[t].id] = "absent"]
    /\ Unlock(t)
    /\ tsCall' = [tsCall EXCEPT ![t].pc = "idle"]
    /\ UNCHANGED notStore

\* taskStore.Get (part_008:91-92)
Get_Begin(t, id) ==
    /\ tsCall[t].pc = "idle"
    /\ RLock(t)
    /\ tsCall' = [tsCall EXCEPT ![t] = [IdleCall EXCEPT !.pc = "reading",
                                        !.op = "Get", !.id = id]]
    /\ UNCHANGED <<ts, seqStore>>
    /\ UNCHANGED notStore

\* part_008:93-95: the map read, RUnlock, and the return of (th, ok).
Get_End(t) ==
    /\ tsCall[t].pc = "reading"
    /\ tsCall' = [tsCall EXCEPT ![t].pc = "idle",
                                ![t].got = ts[tsCall[t].id],
                                ![t].seq = seqStore[tsCall[t].id]]
    /\ RUnlock(t)
    /\ UNCHANGED <<ts, seqStore>>
    /\ UNCHANGED notStore

\* newTaskStore (part_008:73-77)
StoreInit ==
    /\ ts = [id \in TaskIDs |-> "absent"]
    /\ seqStore = [id \in TaskIDs |-> "absent"]
    /\ mu = [writer |-> 0, readers |-> {}]
    /\ tsCall = [t \in StoreCallers |-> IdleCall]

StoreNext ==
    \/ \E t \in StoreCallers, id \in TaskIDs, h \in StoreHandles : Put_Begin(t, id, h)
    \/ \E t \in StoreCallers : Put_End(t)
    \/ \E t \in StoreCallers, id \in TaskIDs : Delete_Begin(t, id)
    \/ \E t \in StoreCallers : Delete_End(t)
    \/ \E t \in StoreCallers, id \in TaskIDs : Get_Begin(t, id)
    \/ \E t \in StoreCallers : Get_End(t)

(***************************************************************************)
(* The driver plugin.  A StartTask call that starts a container makes a    *)
(* taskHandle; handle c is the one made by call c.  The store's Put, Get   *)
(* and Delete are atomic here.  A handle carries its container: the child, *)
(* the done signal, the Result the reaper cached and the job-object handle *)
(* (hJob: "none", "open" or "closed").                                     *)
(***************************************************************************)

\* The StartTask calls (call c makes handle c; 0 is no handle), the WaitTask
\* calls, the DestroyTask calls, and how many results the reader of one
\* WaitTask channel takes.
StartCalls == {1, 2}
WaitCalls == {1}
DestroyCalls == {1}
MaxDeliver == 2
\* The task ids the driver's calls are made with: the calls race on one id.
DriverTaskIDs == {"t1"}

NoHandle ==
    [id |-> "t1", procState |-> "none", exitSet |-> FALSE, exitCode |-> 0,
     locked |-> FALSE, run |-> "none",
     child |-> "none", code |-> 0, done |-> FALSE, status |-> 0,
     hJob |-> "none"]

\* A DestroyTask call not in progress; id, force and ret are those of the
\* last call.
IdleDestroy ==
    [pc |-> "idle", id |-> "t1", h |-> 0, force |-> FALSE, ret |-> "none"]

\* A StopTask call not in progress.  What a call returns is not kept: it
\* reaches nothing the driver stores.
StopIdle == [pc |-> "idle", h |-> 0]

\* taskHandle.IsRunning (dev_null.go:134-137)
IsRunning(h) == hd[h].procState # "exited"

\* os.Process.Kill on the child of handle h.
KillChild(H, h) ==
    IF H[h].child = "running"
    THEN [H EXCEPT ![h].child = "exited", ![h].code = KilledExitCode]
    ELSE H

\* The plugin process before NewDriverPlugin: no job object, no driver.
PluginStart ==
    [pc |-> "CurrentProcess", hJob |-> "none", killOnJobClose |-> FALSE,
     inJob |-> FALSE, driver |-> "none"]

\* NewDriverPlugin when wrapJob has failed (driver.go:23-26): a nil driver.
NilDriver(p) == [p EXCEPT !.pc = "done", !.driver = "nil"]

\* wrapJob (dev_null.go:395-399)
WrapJob_CurrentProcess ==
    /\ plugin.pc = "CurrentProcess"
    /\ \/ plugin' = NilDriver(plugin)
       \/ plugin' = [plugin EXCEPT !.pc = "CreateJobObject"]
    /\ UNCHANGED <<taskStore, hd, st, wt, dt, driverCtx>>
    /\ UNCHANGED sp
    /\ UNCHANGED notDriver

\* dev_null.go:400-404
WrapJob_CreateJobObject ==
    /\ plugin.pc = "CreateJobObject"
    /\ \/ plugin' = NilDriver(plugin)
       \/ plugin' = [plugin EXCEPT !.pc = "SetInformation", !.hJob = "open"]
    /\ UNCHANGED <<taskStore, hd, st, wt, dt, driverCtx>>
    /\ UNCHANGED sp
    /\ UNCHANGED notDriver

\* dev_null.go:405-410
WrapJob_SetInformation ==
    /\ plugin.pc = "SetInformation"
    /\ \/ plugin' = NilDriver(plugin)
       \/ plugin' = [plugin EXCEPT !.pc = "Assign", !.killOnJobClose = TRUE]
    /\ UNCHANGED <<taskStore, hd, st, wt, dt, driverCtx>>
    /\ UNCHANGED sp
    /\ UNCHANGED notDriver

\* A NewDriverPlugin that returns a driver although Assign failed.
WrapJob_AssignIgnored ==
    /\ plugin.pc = "Assign"
    /\ \/ plugin' = [plugin EXCEPT !.pc = "done", !.driver = "serving"]
       \/ plugin' = [plugin EXCEPT !.pc = "done", !.inJob = TRUE,
                                   !.driver = "serving"]
    /\ UNCHANGED <<taskStore, hd, st, wt, dt, driverCtx>>
    /\ UNCHANGED sp
    /\ UNCHANGED notDriver

\* dev_null.go:411-415 and driver.go:27-38: the plugin process is assigned to
\* the job, and NewDriverPlugin returns the driver.
WrapJob_Assign ==
    /\ plugin.pc = "Assign"
    /\ \/ plugin' = NilDriver(plugin)
       \/ plugin' = [plugin EXCEPT !.pc = "done", !.inJob = TRUE,
                                   !.driver = "serving"]
    /\ UNCHANGED <<taskStore, hd, st, wt, dt, driverCtx>>
    /\ UNCHANGED sp
    /\ UNCHANGED notDriver

\* StartTask on the nil driver: d.taskStore (driver.go:202) is a nil-pointer
\* dereference, the plugin process panics.
StartTask_NilDriver(c) ==
    /\ plugin.driver = "nil"
    /\ st[c].pc = "idle"
    /\ st' = [st EXCEPT ![c].pc = "returned", ![c].ret = "panic"]
    /\ plugin' = [plugin EXCEPT !.driver = "crashed"]
    /\ UNCHANGED <<taskStore, hd, wt, dt, driverCtx>>
    /\ UNCHANGED sp
    /\ UNCHANGED notDriver

\* A StartTask that does not look the ID up.
StartTask_GetUnchecked(c, id) ==
    /\ plugin.driver = "serving"
    /\ st[c].pc = "idle"
    /\ st' = [st EXCEPT ![c] = [pc |-> "start", id |-> id, ret |-> "none"]]
    /\ UNCHANGED <<taskStore, hd, wt, dt, driverCtx, plugin>>
    /\ UNCHANGED sp
    /\ UNCHANGED notDriver

\* DriverPlugin.StartTask (driver.go:202-204): refuse an ID the store holds.
StartTask_Get(c, id) ==
    /\ plugin.driver = "serving"
    /\ st[c].pc = "idle"
    /\ \/ /\ taskStore[id] # 0
          /\ st' = [st EXCEPT ![c] = [pc |-> "returned", id |-> id,
                                      ret |-> "errExists"]]
       \/ /\ taskStore[id] = 0
          /\ st' = [st EXCEPT ![c] = [pc |-> "start", id |-> id, ret |-> "none"]]
    /\ UNCHANGED <<taskStore, hd, wt, dt, driverCtx, plugin>>
    /\ UNCHANGED sp
    /\ UNCHANGED notDriver

\* driver.go:205-221 with damonExec.startContainer (part_009:80-106): the
\* config is decoded and the container constructed, or the call fails; the
\* handle is made with procState Running.
StartTask_Container(c) ==
    /\ st[c].pc = "start"
    /\ \/ /\ st' = [st EXCEPT ![c].pc = "returned", ![c].ret = "errStart"]
          /\ UNCHANGED hd
       \/ /\ hd' = [hd EXCEPT ![c] = [NoHandle EXCEPT !.id = st[c].id,
                                      !.procState = "running",
                                      !.child = "running",
                                      !.hJob = "open"]]
          /\ st' = [st EXCEPT ![c].pc = "put"]
    /\ UNCHANGED <<taskStore, wt, dt, driverCtx, plugin>>
    /\ UNCHANGED sp
    /\ UNCHANGED notDriver

\* driver.go:222-225: Put, go th.run(), return the handle.
StartTask_Put(c) ==
    /\ st[c].pc = "put"
    /\ taskStore' = [taskStore EXCEPT ![st[c].id] = c]
    /\ hd' = [hd EXCEPT ![c].run = "waiting"]
    /\ st' = [st EXCEPT ![c].pc = "returned", ![c].ret = "ok"]
    /\ UNCHANGED <<wt, dt, driverCtx, plugin>>
    /\ UNCHANGED sp
    /\ UNCHANGED notDriver

\* The child of a task exits on its own.
Task_ChildExit(h) ==
    /\ hd[h].child = "running"
    /\ \E code \in ExitCodes :
          hd' = [hd EXCEPT ![h].child = "exited", ![h].code = code]
    /\ UNCHANGED <<taskStore, st, wt, dt, driverCtx, plugin>>
    /\ UNCHANGED sp
    /\ UNCHANGED notDriver

\* The container's reaper (Container.wait, container.go:611-625): once the
\* child has exited the Result is cached, the exit code or ExitStatusError
\* when the wait failed, and done fires.
Task_Reap(h) ==
    /\ hd[h].child = "exited"
    /\ ~hd[h].done
    /\ \E err \in BOOLEAN :
          hd' = [hd EXCEPT ![h].done = TRUE,
                           ![h].status = getExitCode(IF err THEN NilState
                                                     ELSE ProcessState(hd[h].code), err)]
    /\ UNCHANGED <<taskStore, st, wt, dt, driverCtx, plugin>>
    /\ UNCHANGED sp
    /\ UNCHANGED notDriver

\* taskHandle.run (dev_null.go:114-126): WaitForResult(context.Background())
\* returns once done has fired, and with no error, for that context is never
\* done; stateLock is taken and procState set.
Run_MarkExited(h) ==
    /\ hd[h].run = "waiting"
    /\ hd[h].done
    /\ ~hd[h].locked
    /\ hd' = [hd EXCEPT ![h].locked = TRUE, ![h].procState = "exited",
                        ![h].run = "marking"]
    /\ UNCHANGED <<taskStore, st, wt, dt, driverCtx, plugin>>
    /\ UNCHANGED sp
    /\ UNCHANGED notDriver

\* dev_null.go:127-131: the exit result is stored and stateLock released.
Run_StoreResult(h) ==
    /\ hd[h].run = "marking"
    /\ hd' = [hd EXCEPT ![h].exitSet = TRUE, ![h].exitCode = hd[h].status,
                        ![h].locked = FALSE, ![h].run = "finished"]
    /\ UNCHANGED <<taskStore, st, wt, dt, driverCtx, plugin>>
    /\ UNCHANGED sp
    /\ UNCHANGED notDriver

\* DriverPlugin.WaitTask (driver.go:243-251)
WaitTask_Call(w, id) ==
    /\ plugin.driver = "serving"
    /\ wt[w].pc = "idle"
    /\ \/ /\ taskStore[id] = 0
          /\ wt' = [wt EXCEPT ![w].pc = "notfound"]
       \/ /\ taskStore[id] # 0
          /\ wt' = [wt EXCEPT ![w].pc = "loop", ![w].h = taskStore[id]]
    /\ UNCHANGED <<taskStore, hd, st, dt, driverCtx, plugin>>
    /\ UNCHANGED sp
    /\ UNCHANGED notDriver

\* The context passed to WaitTask is cancelled.
WaitTask_Cancel(w) ==
    /\ wt[w].pc \in {"loop", "send"}
    /\ ~wt[w].cancelled
    /\ wt' = [wt EXCEPT ![w].cancelled = TRUE]
    /\ UNCHANGED <<taskStore, hd, st, dt, driverCtx, plugin>>
    /\ UNCHANGED sp
    /\ UNCHANGED notDriver

\* handleWait (driver.go:266-270): a tick; TaskStatus reads under stateLock.
\* A tick that finds the task not exited goes round the loop.
HandleWait_Tick(w) ==
    /\ wt[w].pc = "loop"
    /\ ~hd[wt[w].h].locked
    /\ hd[wt[w].h].procState = "exited"
    /\ wt' = [wt EXCEPT ![w].pc = "send"]
    /\ UNCHANGED <<taskStore, hd, st, dt, driverCtx, plugin>>
    /\ UNCHANGED sp
    /\ UNCHANGED notDriver

\* driver.go:269: ch <- handle.exitResult, taken by the channel's reader; the
\* loop then goes on.
HandleWait_Send(w) ==
    /\ wt[w].pc = "send"
    /\ wt[w].delivered < MaxDeliver
    /\ wt' = [wt EXCEPT ![w].pc = "loop", ![w].delivered = @ + 1,
                        ![w].last = [set |-> hd[wt[w].h].exitSet,
                                     ExitCode |-> hd[wt[w].h].exitCode]]
    /\ UNCHANGED <<taskStore, hd, st, dt, driverCtx, plugin>>
    /\ UNCHANGED sp
    /\ UNCHANGED notDriver

\* driver.go:261-265 and 254: either context is done; the deferred close(ch).
HandleWait_Stop(w) ==
    /\ wt[w].pc = "loop"
    /\ wt[w].cancelled \/ driverCtx = "cancelled"
    /\ wt' = [wt EXCEPT ![w].pc = "closed"]
    /\ UNCHANGED <<taskStore, hd, st, dt, driverCtx, plugin>>
    /\ UNCHANGED sp
    /\ UNCHANGED notDriver

\* DriverPlugin.DestroyTask (driver.go:287-290): the handle is read from the
\* store, whose lock is released before the call goes on.
DestroyTask_Get(d, id, force) ==
    /\ plugin.driver = "serving"
    /\ dt[d].pc = "idle"
    /\ dt' = [dt EXCEPT ![d] =
                 IF taskStore[id] = 0
                 THEN [IdleDestroy EXCEPT !.id = id, !.force = force,
                                          !.ret = "notfound"]
                 ELSE [pc |-> "test", id |-> id, h |-> taskStore[id],
                       force |-> force, ret |-> "none"]]
    /\ UNCHANGED <<taskStore, hd, st, wt, driverCtx, plugin>>
    /\ UNCHANGED sp
    /\ UNCHANGED notDriver

\* driver.go:292-294: the first IsRunning, on the handle that was read, under
\* the handle's stateLock.
DestroyTask_IsRunning(d) ==
    /\ dt[d].pc = "test"
    /\ ~hd[dt[d].h].locked
    /\ dt' = [dt EXCEPT ![d] =
                 IF IsRunning(dt[d].h) /\ ~dt[d].force
                 THEN [IdleDestroy EXCEPT !.id = dt[d].id, !.force = dt[d].force,
                                          !.ret = "errRunning"]
                 ELSE [dt[d] EXCEPT !.pc = "check"]]
    /\ UNCHANGED <<taskStore, hd, st, wt, driverCtx, plugin>>
    /\ UNCHANGED sp
    /\ UNCHANGED notDriver

\* driver.go:296-298: the second IsRunning, and the call of shutdown with its
\* grace period of a minute, which returns nil at once when the process is
\* done already (part_015:192-195).
DestroyTask_Check(d) ==
    /\ dt[d].pc = "check"
    /\ ~hd[dt[d].h].locked
    /\ dt' = [dt EXCEPT ![d].pc = IF IsRunning(dt[d].h) /\ ~hd[dt[d].h].done
                                  THEN "shutdown" ELSE "delete"]
    /\ UNCHANGED <<taskStore, hd, st, wt, driverCtx, plugin>>
    /\ UNCHANGED sp
    /\ UNCHANGED notDriver

\* Process.Shutdown (part_015:192-195): the process is done within the grace
\* period.
DestroyTask_ShutdownDone(d) ==
    /\ dt[d].pc = "shutdown"
    /\ hd[dt[d].h].done
    /\ dt' = [dt EXCEPT ![d].pc = "delete"]
    /\ UNCHANGED <<taskStore, hd, st, wt, driverCtx, plugin>>
    /\ UNCHANGED sp
    /\ UNCHANGED notDriver

\* part_015:196-198: the grace period has elapsed; Kill.
DestroyTask_ShutdownTimeout(d) ==
    /\ dt[d].pc = "shutdown"
    /\ hd' = KillChild(hd, dt[d].h)
    /\ dt' = [dt EXCEPT ![d].pc = "delete"]
    /\ UNCHANGED <<taskStore, st, wt, driverCtx, plugin>>
    /\ UNCHANGED sp
    /\ UNCHANGED notDriver

\* driver.go:302-304
DestroyTask_Delete(d) ==
    /\ dt[d].pc = "delete"
    /\ taskStore' = [taskStore EXCEPT ![dt[d].id] = 0]
    /\ dt' = [dt EXCEPT ![d] = [IdleDestroy EXCEPT !.id = dt[d].id,
                                                  !.force = dt[d].force, !.ret = "ok"]]
    /\ UNCHANGED <<hd, st, wt, driverCtx, plugin>>
    /\ UNCHANGED sp
    /\ UNCHANGED notDriver

\* DriverPlugin.StopTask (driver.go:275-279): the handle is looked up, and
\* handle.shutdown(timeout) is called on it whatever state the task is in.
\* With no task stored, ErrTaskNotFound is returned and nothing changes.
StopTask_Call(id) ==
    /\ plugin.driver = "serving"
    /\ sp.pc = "idle"
    /\ sp' = IF taskStore[id] = 0
             THEN StopIdle
             ELSE [pc |-> "shutdown", h |-> taskStore[id]]
    /\ UNCHANGED <<taskStore, hd, st, wt, dt, driverCtx, plugin>>
    /\ UNCHANGED notDriver

\* Process.Shutdown (part_015:192-195) under StopTask: the process is done
\* within the timeout, and StopTask returns nil (driver.go:283).
StopTask_ShutdownDone ==
    /\ sp.pc = "shutdown"
    /\ hd[sp.h].done
    /\ sp' = StopIdle
    /\ UNCHANGED <<taskStore, hd, st, wt, dt, driverCtx, plugin>>
    /\ UNCHANGED notDriver

\* part_015:196-198 under StopTask: the timeout has elapsed and the child is
\* killed; the entry stays in the store (driver.go:280-283).
StopTask_ShutdownTimeout ==
    /\ sp.pc = "shutdown"
    /\ hd' = KillChild(hd, sp.h)
    /\ sp' = StopIdle
    /\ UNCHANGED <<taskStore, st, wt, dt, driverCtx, plugin>>
    /\ UNCHANGED notDriver

\* DriverPlugin.Shutdown (driver.go:156-159, 31-35): the plugin's own job is
\* closed, which kills the children in it, and the driver context cancelled.
Driver_Shutdown ==
    /\ plugin.driver = "serving"
    /\ driverCtx = "live"
    /\ driverCtx' = "cancelled"
    /\ hd' = [h \in StartCalls |->
                 IF hd[h].child = "running"
                 THEN [hd[h] EXCEPT !.child = "exited", !.code = KilledExitCode]
                 ELSE hd[h]]
    /\ plugin' = [plugin EXCEPT !.hJob = "closed"]
    /\ UNCHANGED <<taskStore, st, wt, dt>>
    /\ UNCHANGED sp
    /\ UNCHANGED notDriver

\* NewDriverPlugin (driver.go:21-39)
DriverInit ==
    /\ taskStore = [id \in TaskIDs |-> 0]
    /\ hd = [h \in StartCalls |-> NoHandle]
    /\ st = [c \in StartCalls |-> [pc |-> "idle", id |-> "t1", ret |-> "none"]]
    /\ wt = [w \in WaitCalls |->
                [pc |-> "idle", h |-> 0, cancelled |-> FALSE, delivered |-> 0,
                 last |-> [set |-> FALSE, ExitCode |-> 0]]]
    /\ dt = [d \in DestroyCalls |-> IdleDestroy]
    /\ sp = StopIdle
    /\ driverCtx = "live"
    /\ plugin = PluginStart

DriverNext ==
    \/ WrapJob_CurrentProcess
    \/ WrapJob_CreateJobObject
    \/ WrapJob_SetInformation
    \/ WrapJob_Assign
    \/ \E c \in StartCalls : StartTask_NilDriver(c)
    \/ \E c \in StartCalls, id \in DriverTaskIDs : StartTask_Get(c, id)
    \/ \E c \in StartCalls : StartTask_Container(c)
    \/ \E c \in StartCalls : StartTask_Put(c)
    \/ \E h \in StartCalls : Task_ChildExit(h)
    \/ \E h \in StartCalls : Task_Reap(h)
    \/ \E h \in StartCalls : Run_MarkExited(h)
    \/ \E h \in StartCalls : Run_StoreResult(h)
    \/ \E w \in WaitCalls, id \in DriverTaskIDs : WaitTask_Call(w, id)
    \/ \E w \in WaitCalls : WaitTask_Cancel(w)
    \/ \E w \in WaitCalls : HandleWait_Tick(w)
    \/ \E w \in WaitCalls : HandleWait_Send(w)
    \/ \E w \in WaitCalls : HandleWait_Stop(w)
    \/ \E d \in DestroyCalls, id \in DriverTaskIDs, force \in BOOLEAN : DestroyTask_Get(d, id, force)
    \/ \E d \in DestroyCalls : DestroyTask_IsRunning(d)
    \/ \E d \in DestroyCalls : DestroyTask_Check(d)
    \/ \E d \in DestroyCalls : DestroyTask_ShutdownDone(d)
    \/ \E d \in DestroyCalls : DestroyTask_ShutdownTimeout(d)
    \/ \E d \in DestroyCalls : DestroyTask_Delete(d)
    \/ \E id \in DriverTaskIDs : StopTask_Call(id)
    \/ StopTask_ShutdownDone
    \/ StopTask_ShutdownTimeout
    \/ Driver_Shutdown

(***************************************************************************)
(* Container.Exec, Task.Wait and DriverPlugin.ExecTask.  Exec starts an    *)
(* auxiliary process in the container's job; Task.Wait starts a goroutine  *)
(* that waits for it and reports on one of two buffered channels, closing  *)
(* both when it ends, while the caller selects on the two channels and on  *)
(* its context.  A select that finds no case ready parks, and the send or  *)
(* the cancellation that wakes it decides its case; a select that finds    *)
(* several cases ready takes any of them.                                  *)
(***************************************************************************)

\* The argument vectors Exec and ExecTask are called with.
Commands == {<<>>, <<"cmd">>, <<"cmd", "arg">>}

\* The exit codes an auxiliary process leaves with on its own.
AuxExitCodes == {0, 3}

ExecIdle == [pc |-> "idle", cmd |-> <<>>, caller |-> "none", ret |-> "none"]

\* No auxiliary process yet.  state is "none", "suspended", "running",
\* "exited" (on its own) or "killed".
NoAux == [state |-> "none", argv |-> <<>>, inJob |-> FALSE, code |-> 0]

\* Task.Wait before it is called.  g is where its goroutine is; a channel is
\* its buffer and whether it is closed; code and err are what Wait returned;
\* auxAtCancel records the state the auxiliary was in when the context was
\* cancelled.
WaitIdle ==
    [pc |-> "idle", g |-> "none", exitBuf |-> <<>>, exitClosed |-> FALSE,
     errBuf |-> <<>>, errClosed |-> FALSE, cancelled |-> FALSE,
     auxAtCancel |-> "none",
     waitErr |-> FALSE, killed |-> FALSE, code |-> 0, err |-> "none"]

ExecTaskIdle ==
    [pc |-> "idle", argv |-> <<>>, found |-> FALSE, ret |-> "none",
     ExitCode |-> 0, Err |-> "none"]

\* Process.Kill on the auxiliary: it ends a live process and no other.
KillAux(a) ==
    IF a.state \in {"suspended", "running"}
    THEN [a EXCEPT !.state = "killed", !.code = KilledExitCode]
    ELSE a

\* A caller of the container's API calls Exec(cfg) with cfg.Command = cmd.
Exec_Call(cmd) ==
    /\ ex.pc = "idle"
    /\ et.pc = "idle"
    /\ ex' = [ExecIdle EXCEPT !.pc = "check", !.cmd = cmd, !.caller = "direct"]
    /\ UNCHANGED <<aux, tw, et, mainChild>>
    /\ UNCHANGED notExec

\* Exec refuses an empty Command.
Exec_Check ==
    /\ ex.pc = "check"
    /\ ex' = IF Len(ex.cmd) = 0
             THEN [ex EXCEPT !.pc = "returned", !.ret = "no arguments"]
             ELSE [ex EXCEPT !.pc = "StartProcess"]
    /\ UNCHANGED <<aux, tw, et, mainChild>>
    /\ UNCHANGED notExec

\* StartProcess with the container's token, suspended.
Exec_StartProcess ==
    /\ ex.pc = "StartProcess"
    /\ \E ok \in BOOLEAN :
          IF ok
          THEN /\ aux' = [NoAux EXCEPT !.state = "suspended", !.argv = ex.cmd]
               /\ ex' = [ex EXCEPT !.pc = "Assign"]
          ELSE /\ aux' = aux
               /\ ex' = [ex EXCEPT !.pc = "returned", !.ret = "StartProcess"]
    /\ UNCHANGED <<tw, et, mainChild>>
    /\ UNCHANGED notExec

\* c.job.Assign(proc); on failure the auxiliary is killed.
Exec_Assign ==
    /\ ex.pc = "Assign"
    /\ \E ok \in BOOLEAN :
          IF ok
          THEN /\ aux' = [aux EXCEPT !.inJob = TRUE]
               /\ ex' = [ex EXCEPT !.pc = "Resume"]
          ELSE /\ aux' = KillAux(aux)
               /\ ex' = [ex EXCEPT !.pc = "returned", !.ret = "Assign"]
    /\ UNCHANGED <<tw, et, mainChild>>
    /\ UNCHANGED notExec

\* proc.Resume(); on failure the auxiliary is killed, otherwise Exec returns
\* the Task.
Exec_Resume ==
    /\ ex.pc = "Resume"
    /\ \E ok \in BOOLEAN :
          IF ok
          THEN /\ aux' = [aux EXCEPT !.state = "running"]
               /\ ex' = [ex EXCEPT !.pc = "returned", !.ret = "ok"]
          ELSE /\ aux' = KillAux(aux)
               /\ ex' = [ex EXCEPT !.pc = "returned", !.ret = "Resume"]
    /\ UNCHANGED <<tw, et, mainChild>>
    /\ UNCHANGED notExec

\* The auxiliary process exits on its own.
Aux_Exit(code) ==
    /\ aux.state = "running"
    /\ aux' = [aux EXCEPT !.state = "exited", !.code = code]
    /\ UNCHANGED <<ex, tw, et, mainChild>>
    /\ UNCHANGED notExec

\* The container's main child exits on its own.
Main_Exit ==
    /\ mainChild = "running"
    /\ mainChild' = "exited"
    /\ UNCHANGED <<ex, aux, tw, et>>
    /\ UNCHANGED notExec

\* Task.Wait as called: the channels made, the goroutine started, the
\* select not yet evaluated.
WaitCalled == [WaitIdle EXCEPT !.pc = "select", !.g = "Wait"]

\* The caller of Exec calls Wait on the Task it was given.
TaskWait_Call ==
    /\ ex.pc = "returned"
    /\ ex.ret = "ok"
    /\ ex.caller = "direct"
    /\ tw.pc = "idle"
    /\ tw' = WaitCalled
    /\ UNCHANGED <<ex, aux, et, mainChild>>
    /\ UNCHANGED notExec

\* The cases of Wait's select that are ready.
ErrReady == tw.errBuf # <<>> \/ tw.errClosed
ExitReady == tw.exitBuf # <<>> \/ tw.exitClosed

\* The select finds no case ready and parks.
TaskWait_Park ==
    /\ tw.pc = "select"
    /\ ~ErrReady
    /\ ~ExitReady
    /\ ~tw.cancelled
    /\ tw' = [tw EXCEPT !.pc = "parked"]
    /\ UNCHANGED <<ex, aux, et, mainChild>>
    /\ UNCHANGED notExec

\* The context is cancelled (by its owner, or by its timeout); a parked
\* select wakes on it.
TaskWait_Cancel ==
    /\ tw.pc \in {"select", "parked"}
    /\ ~tw.cancelled
    /\ tw' = [tw EXCEPT !.cancelled = TRUE,
                        !.auxAtCancel = aux.state,
                        !.pc = IF tw.pc = "parked" THEN "wokeCtx" ELSE tw.pc]
    /\ UNCHANGED <<ex, aux, et, mainChild>>
    /\ UNCHANGED notExec

\* The goroutine: t.osProcess.Wait() returns once the auxiliary has ended,
\* with or without an error of the operating system's wait; the result goes
\* to errCh or to exitCh, and a parked select wakes on it.
TaskWait_Reap(e) ==
    /\ tw.g = "Wait"
    /\ aux.state \in {"exited", "killed"}
    /\ tw' = IF e
             THEN [tw EXCEPT !.g = "closeErr", !.waitErr = TRUE,
                             !.errBuf = <<"wait error">>,
                             !.pc = IF tw.pc = "parked" THEN "wokeErr" ELSE tw.pc]
             ELSE [tw EXCEPT !.g = "closeErr",
                             !.exitBuf = <<aux.code>>,
                             !.pc = IF tw.pc = "parked" THEN "wokeExit" ELSE tw.pc]
    /\ UNCHANGED <<ex, aux, et, mainChild>>
    /\ UNCHANGED notExec

\* The goroutine's deferred close(errCh).
TaskWait_CloseErr ==
    /\ tw.g = "closeErr"
    /\ tw' = [tw EXCEPT !.g = "closeExit", !.errClosed = TRUE]
    /\ UNCHANGED <<ex, aux, et, mainChild>>
    /\ UNCHANGED notExec

\* The goroutine's deferred close(exitCh).
TaskWait_CloseExit ==
    /\ tw.g = "closeExit"
    /\ tw' = [tw EXCEPT !.g = "end", !.exitClosed = TRUE]
    /\ UNCHANGED <<ex, aux, et, mainChild>>
    /\ UNCHANGED notExec

\* case err := <-errCh: the auxiliary is killed and Wait returns -1 with
\* what it received, which is nil from a closed, empty channel.
TaskWait_RecvErr ==
    /\ tw.pc \in (IF ErrReady THEN {"select", "wokeErr"} ELSE {"wokeErr"})
    /\ aux' = KillAux(aux)
    /\ tw' = [tw EXCEPT !.pc = "returned", !.killed = TRUE, !.code = -1,
                        !.err = IF tw.errBuf # <<>> THEN Head(tw.errBuf) ELSE "nil",
                        !.errBuf = <<>>]
    /\ UNCHANGED <<ex, et, mainChild>>
    /\ UNCHANGED notExec

\* case res := <-exitCh: Wait returns what it received, which is 0 from a
\* closed, empty channel, and no error.
TaskWait_RecvExit ==
    /\ tw.pc \in (IF ExitReady THEN {"select", "wokeExit"} ELSE {"wokeExit"})
    /\ tw' = [tw EXCEPT !.pc = "returned", !.err = "nil",
                        !.code = IF tw.exitBuf # <<>> THEN Head(tw.exitBuf) ELSE 0,
                        !.exitBuf = <<>>]
    /\ UNCHANGED <<ex, aux, et, mainChild>>
    /\ UNCHANGED notExec

\* The mutation of TaskWait_CtxDone that does not kill the auxiliary.
TaskWait_CtxDone_NoKill ==
    /\ tw.pc \in (IF tw.cancelled THEN {"select", "wokeCtx"} ELSE {"wokeCtx"})
    /\ aux' = aux
    /\ tw' = [tw EXCEPT !.pc = "returned", !.killed = TRUE, !.code = -1,
                        !.err = "context canceled"]
    /\ UNCHANGED <<ex, et, mainChild>>
    /\ UNCHANGED notExec

\* case <-ctx.Done(): the auxiliary is killed and Wait returns -1 with the
\* context's error.
TaskWait_CtxDone ==
    /\ tw.pc \in (IF tw.cancelled THEN {"select", "wokeCtx"} ELSE {"wokeCtx"})
    /\ aux' = KillAux(aux)
    /\ tw' = [tw EXCEPT !.pc = "returned", !.killed = TRUE, !.code = -1,
                        !.err = "context canceled"]
    /\ UNCHANGED <<ex, et, mainChild>>
    /\ UNCHANGED notExec

\* ExecTask(id, argv, timeout): an unknown task is refused; for a known one
\* Exec is called with a TaskConfig that has the environment, the directory
\* and the two buffers, and no Command.
ExecTask_Call(argv, found) ==
    /\ et.pc = "idle"
    /\ ex.pc = "idle"
    /\ IF found
       THEN /\ et' = [ExecTaskIdle EXCEPT !.pc = "exec", !.argv = argv, !.found = TRUE]
            /\ ex' = [ExecIdle EXCEPT !.pc = "check", !.cmd = <<>>, !.caller = "ExecTask"]
       ELSE /\ et' = [ExecTaskIdle EXCEPT !.pc = "returned", !.argv = argv,
                                          !.ret = "ErrTaskNotFound"]
            /\ ex' = ex
    /\ UNCHANGED <<aux, tw, mainChild>>
    /\ UNCHANGED notExec

\* ExecTask after Exec has returned: an error is returned as it is, a Task is
\* waited for under the timeout; and after Wait has returned: its exit code
\* and its error are the ExitResult, returned with no error.
ExecTask_Continue ==
    /\ et.pc \in {"exec", "wait"}
    /\ IF et.pc = "exec"
       THEN /\ ex.pc = "returned"
            /\ IF ex.ret = "ok"
               THEN /\ et' = [et EXCEPT !.pc = "wait"]
                    /\ tw' = WaitCalled
               ELSE /\ et' = [et EXCEPT !.pc = "returned", !.ret = "err"]
                    /\ tw' = tw
       ELSE /\ tw.pc = "returned"
            /\ et' = [et EXCEPT !.pc = "returned", !.ret = "ok",
                                !.ExitCode = tw.code, !.Err = tw.err]
            /\ tw' = tw
    /\ UNCHANGED <<ex, aux, mainChild>>
    /\ UNCHANGED notExec

\* A container returned by RunContained, its main child running.
ExecInit ==
    /\ ex = ExecIdle
    /\ aux = NoAux
    /\ tw = WaitIdle
    /\ et = ExecTaskIdle
    /\ mainChild = "running"

ExecNext ==
    \/ \E cmd \in Commands : Exec_Call(cmd)
    \/ Exec_Check
    \/ Exec_StartProcess
    \/ Exec_Assign
    \/ Exec_Resume
    \/ \E code \in AuxExitCodes : Aux_Exit(code)
    \/ Main_Exit
    \/ TaskWait_Call
    \/ TaskWait_Park
    \/ TaskWait_Cancel
    \/ \E e \in BOOLEAN : TaskWait_Reap(e)
    \/ TaskWait_CloseErr
    \/ TaskWait_CloseExit
    \/ TaskWait_RecvErr
    \/ TaskWait_RecvExit
    \/ TaskWait_CtxDone
    \/ \E argv \in Commands, found \in BOOLEAN : ExecTask_Call(argv, found)
    \/ ExecTask_Continue

(***************************************************************************)
(* DriverPlugin.SignalTask.  "SIGINT" and "SIGKILL" are Container.Shutdown *)
(* with a timeout of 30 seconds; any other name is looked up and handed to *)
(* Container.Signal, os.Kill standing in for a name the table lacks.       *)
(* Shutdown is Process.Shutdown as above, against a child with its reaper  *)
(* and its watcher.                                                        *)
(***************************************************************************)

\* The signal names SignalTask is called with.
SignalNames == {"SIGINT", "SIGKILL", "SIGTERM", "SIGBOGUS"}

\* The names SignalLookup has, with the signal each stands for.
SignalLookup == [n \in {"SIGINT", "SIGKILL", "SIGTERM"} |->
                    IF n = "SIGKILL" THEN "kill"
                    ELSE IF n = "SIGINT" THEN "interrupt" ELSE "terminate"]

SignalIdle ==
    [pc |-> "idle", name |-> "SIGINT", found |-> FALSE, sig |-> "none",
     doneCh |-> "nil", ret |-> "none"]

\* The task's child as SignalTask finds it: doneCh is Process.doneCh ("nil",
\* "open" or "closed"), exitCh is Process.exitCh ("nil" or "made"), request
\* whether a timeout is buffered in exitCh, watcher where the goroutine
\* Process.Wait starts is ("none" before it is started, "select", "broke"
\* after a console-break, "returned"), broke whether a console-break was
\* sent, by is what ended the child.
SignalChild ==
    [child |-> "running", doneCh |-> "nil", exitCh |-> "nil", request |-> FALSE,
     watcher |-> "none", broke |-> FALSE, by |-> "none"]

\* os.Process.Kill on the child, issued by who.
SgKill(p, who) ==
    IF p.child = "running" THEN [p EXCEPT !.child = "exited", !.by = who] ELSE p

\* The mutation of SignalTask_Call that falls back to the interrupt signal,
\* as its log message says, for a name the table lacks.
SignalTask_Call_Interrupt(name, found) ==
    /\ sg.pc = "idle"
    /\ sg' = IF ~found
             THEN [SignalIdle EXCEPT !.pc = "returned", !.name = name,
                                     !.ret = "ErrTaskNotFound"]
             ELSE IF name \in {"SIGINT", "SIGKILL"}
             THEN [SignalIdle EXCEPT !.pc = "send", !.name = name, !.found = TRUE]
             ELSE [SignalIdle EXCEPT !.pc = "signal", !.name = name,
                      !.found = TRUE,
                      !.sig = IF name \in DOMAIN SignalLookup
                              THEN SignalLookup[name] ELSE "interrupt"]
    /\ UNCHANGED sgProc
    /\ UNCHANGED notSignal

\* SignalTask up to its call of Shutdown or Signal (driver.go:325-341).
SignalTask_Call(name, found) ==
    /\ sg.pc = "idle"
    /\ sg' = IF ~found
             THEN [SignalIdle EXCEPT !.pc = "returned", !.name = name,
                                     !.ret = "ErrTaskNotFound"]
             ELSE IF name \in {"SIGINT", "SIGKILL"}
             THEN [SignalIdle EXCEPT !.pc = "send", !.name = name, !.found = TRUE]
             ELSE [SignalIdle EXCEPT !.pc = "signal", !.name = name,
                      !.found = TRUE,
                      !.sig = IF name \in DOMAIN SignalLookup
                              THEN SignalLookup[name] ELSE "kill"]
    /\ UNCHANGED sgProc
    /\ UNCHANGED notSignal

\* Process.Shutdown, the non-blocking send (part_015:185-191): accepted when
\* exitCh is made and empty; on a nil or a full exitCh the default is taken.
\* exitCh is read without waitLock.
SignalTask_ShutdownSend ==
    /\ sg.pc = "send"
    /\ sg' = [sg EXCEPT !.pc = "enter"]
    /\ sgProc' = [sgProc EXCEPT !.request = @ \/ sgProc.exitCh = "made"]
    /\ UNCHANGED notSignal

\* Process.Shutdown enters its second select (part_015:192): doneCh is read,
\* without waitLock, and time.After is started.
SignalTask_ShutdownSelect ==
    /\ sg.pc = "enter"
    /\ sg' = [sg EXCEPT !.pc = "select",
                        !.doneCh = IF sgProc.doneCh = "nil" THEN "nil" ELSE "chan"]
    /\ UNCHANGED sgProc
    /\ UNCHANGED notSignal

\* Process.Shutdown, case <-p.doneCh (part_015:193-195).
SignalTask_ShutdownDone ==
    /\ sg.pc = "select"
    /\ sg.doneCh = "chan"
    /\ sgProc.doneCh = "closed"
    /\ sg' = [sg EXCEPT !.pc = "returned", !.ret = "nil"]
    /\ UNCHANGED sgProc
    /\ UNCHANGED notSignal

\* Process.Shutdown, case <-time.After(timeout): return p.Kill()
\* (part_015:196-198).
SignalTask_ShutdownTimeout ==
    /\ sg.pc = "select"
    /\ sg' = [sg EXCEPT !.pc = "returned",
                        !.ret = IF sgProc.child = "running" THEN "nil" ELSE "error"]
    /\ sgProc' = SgKill(sgProc, "shutdown")
    /\ UNCHANGED notSignal

\* Container.Signal(sig) is Process.Signal(sig): the kill signal ends the
\* child; any other signal is delivered as far as the platform can, and the
\* child may end on it or not.
SignalTask_Signal ==
    /\ sg.pc = "signal"
    /\ sg' = [sg EXCEPT !.pc = "returned",
                        !.ret = IF sgProc.child = "running" THEN "nil" ELSE "error"]
    /\ IF sg.sig = "kill"
       THEN sgProc' = SgKill(sgProc, "signal")
       ELSE \E ends \in BOOLEAN :
               sgProc' = IF ends THEN SgKill(sgProc, "signal") ELSE sgProc
    /\ UNCHANGED notSignal

\* Process.Wait makes doneCh (part_015:98-104).
SignalReaper_MakeDoneCh ==
    /\ sgProc.doneCh = "nil"
    /\ sgProc' = [sgProc EXCEPT !.doneCh = "open"]
    /\ UNCHANGED sg
    /\ UNCHANGED notSignal

\* Process.Wait makes exitCh and starts the watcher (part_015:105-108).
SignalReaper_MakeExitCh ==
    /\ sgProc.doneCh # "nil"
    /\ sgProc.exitCh = "nil"
    /\ sgProc' = [sgProc EXCEPT !.exitCh = "made", !.watcher = "select"]
    /\ UNCHANGED sg
    /\ UNCHANGED notSignal

\* The watcher's first select, case <-p.doneCh (part_015:113-117): done
\* before an exit request was taken.
SignalWatcher_DoneFirst ==
    /\ sgProc.watcher = "select"
    /\ sgProc.doneCh = "closed"
    /\ sgProc' = [sgProc EXCEPT !.watcher = "returned"]
    /\ UNCHANGED sg
    /\ UNCHANGED notSignal

\* The watcher receives the exit request and sends the console-break
\* (part_015:110-124); if the break cannot be sent it kills the child at
\* once and returns.
SignalWatcher_Break(sent) ==
    /\ sgProc.watcher = "select"
    /\ sgProc.request
    /\ sgProc' = IF sent
                 THEN [sgProc EXCEPT !.request = FALSE, !.broke = TRUE,
                                     !.watcher = "broke"]
                 ELSE [SgKill(sgProc, "watcher") EXCEPT !.request = FALSE,
                                                        !.watcher = "returned"]
    /\ UNCHANGED sg
    /\ UNCHANGED notSignal

\* The watcher's second select, case <-p.doneCh (part_015:125-128).
SignalWatcher_DoneSecond ==
    /\ sgProc.watcher = "broke"
    /\ sgProc.doneCh = "closed"
    /\ sgProc' = [sgProc EXCEPT !.watcher = "returned"]
    /\ UNCHANGED sg
    /\ UNCHANGED notSignal

\* The watcher's timeout after the console-break (part_015:129-131); its
\* kill changes nothing once the child has ended.
SignalWatcher_Timeout ==
    /\ sgProc.watcher = "broke"
    /\ sgProc' = [SgKill(sgProc, "watcher") EXCEPT !.watcher = "returned"]
    /\ UNCHANGED sg
    /\ UNCHANGED notSignal

\* The child exits on its own.
SignalChild_Exit ==
    /\ sgProc.child = "running"
    /\ sgProc' = [sgProc EXCEPT !.child = "exited", !.by = "itself"]
    /\ UNCHANGED sg
    /\ UNCHANGED notSignal

\* Process.Wait returns and closes doneCh (part_015:134-144).
SignalReaper_Reap ==
    /\ sgProc.exitCh = "made"
    /\ sgProc.child = "exited"
    /\ sgProc.doneCh = "open"
    /\ sgProc' = [sgProc EXCEPT !.doneCh = "closed"]
    /\ UNCHANGED sg
    /\ UNCHANGED notSignal

SignalInit ==
    /\ sg = SignalIdle
    /\ sgProc = SignalChild

SignalNext ==
    \/ \E name \in SignalNames, found \in BOOLEAN : SignalTask_Call(name, found)
    \/ SignalTask_ShutdownSend
    \/ SignalTask_ShutdownSelect
    \/ SignalTask_ShutdownDone
    \/ SignalTask_ShutdownTimeout
    \/ SignalTask_Signal
    \/ SignalReaper_MakeDoneCh
    \/ SignalReaper_MakeExitCh
    \/ SignalWatcher_DoneFirst
    \/ \E sent \in BOOLEAN : SignalWatcher_Break(sent)
    \/ SignalWatcher_DoneSecond
    \/ SignalWatcher_Timeout
    \/ SignalChild_Exit
    \/ SignalReaper_Reap

(***************************************************************************)
(* win32.MHzToCPURate.  The code computes in float64: the quotient          *)
(* mhz / CPUTotalTicks is rounded to 53 significant bits, its product with  *)
(* 10000.0 is rounded again, and the conversion to uint truncates.  A       *)
(* float64 is modelled exactly, as its 53 mantissa bits, most significant   *)
(* first, and the exponent of the first of them; rounding is to nearest,    *)
(* ties to even.                                                            *)
(***************************************************************************)

\* job_object_info.go:13-14
MaxCPURate == 10000
MinCPURate == 1

\* The number of mantissa bits of a float64.
MantissaBits == 53

\* The machines: the number of cores and the MHz of one core.
CoreCounts == {1, 4}
CoreMHz == {2000, 3000}

\* The CPU limits MHzToCPURate is called with: every one up to MaxMHz, and
\* some at and above the machine's total.
MaxMHz == 130
MHzInputs == (0 .. MaxMHz) \cup {2048, 12000, 20000}

\* GetSystemResources (part_022:60): CPUTotalTicks, a whole number.
CPUTotalTicks(cores, mhz) == cores * mhz

\* x * 2^s for the least s that makes it at least d, with s.
RECURSIVE NormNum(_, _, _)
NormNum(x, d, s) == IF x >= d THEN <<x, s>> ELSE NormNum(2 * x, d, s + 1)

\* d * 2^t for the greatest t that keeps it at most x, with t.
RECURSIVE NormDen(_, _, _)
NormDen(x, d, t) == IF 2 * d > x THEN <<d, t>> ELSE NormDen(x, 2 * d, t + 1)

\* The next n bits of the quotient r / d (r < d), followed by the remainder
\* left.
RECURSIVE QuotBits(_, _, _)
QuotBits(r, d, n) ==
    IF n = 0 THEN <<r>>
    ELSE IF 2 * r >= d THEN <<1>> \o QuotBits(2 * r - d, d, n - 1)
    ELSE <<0>> \o QuotBits(2 * r, d, n - 1)

\* bits + 1: the carry out of it, followed by a sequence of the same length.
RECURSIVE IncBits(_)
IncBits(bits) ==
    IF bits = <<>> THEN <<1>>
    ELSE IF bits[Len(bits)] = 0
    THEN <<0>> \o SubSeq(bits, 1, Len(bits) - 1) \o <<1>>
    ELSE IncBits(SubSeq(bits, 1, Len(bits) - 1)) \o <<0>>

\* The float64 nearest to the number whose leading bits are bits (the first
\* of them 1, of exponent e), followed by the bit guard and then by more
\* that are all zero exactly when sticky is FALSE.
RoundNearestEven(bits, e, guard, sticky) ==
    IF guard = 1 /\ (sticky \/ bits[Len(bits)] = 1)
    THEN LET up == IncBits(bits)
         IN  IF up[1] = 1
             THEN [bits |-> SubSeq(up, 1, Len(bits)), exp |-> e + 1]
             ELSE [bits |-> SubSeq(up, 2, Len(up)), exp |-> e]
    ELSE [bits |-> bits, exp |-> e]

\* float64(x) / float64(d) for whole numbers x, d >= 1 that a float64 holds
\* exactly.
FloatDiv(x, d) ==
    LET num == IF x < d THEN NormNum(x, d, 0) ELSE <<x, 0>>
        den == IF x < d THEN <<d, 0>> ELSE NormDen(x, d, 0)
        e == den[2] - num[2]
        q == QuotBits(num[1] - den[1], den[1], MantissaBits)
    IN  RoundNearestEven(<<1>> \o SubSeq(q, 1, MantissaBits - 1), e,
                         q[MantissaBits], q[MantissaBits + 1] # 0)

\* The bits of the natural number n, most significant first.
RECURSIVE NatBits(_)
NatBits(n) == IF n = 0 THEN <<>> ELSE NatBits(n \div 2) \o <<n % 2>>

\* The bits of the product of the number bits and k, with carry added.
RECURSIVE MulBits(_, _, _)
MulBits(bits, k, carry) ==
    IF bits = <<>> THEN NatBits(carry)
    ELSE LET n == Len(bits)
             v == bits[n] * k + carry
         IN  IF v % 2 = 0
             THEN MulBits(SubSeq(bits, 1, n - 1), k, v \div 2) \o <<0>>
             ELSE MulBits(SubSeq(bits, 1, n - 1), k, v \div 2) \o <<1>>

\* f * float64(k) for a whole number k >= 1 that a float64 holds exactly.
FloatMul(f, k) ==
    LET p == MulBits(f.bits, k, 0)
        extra == Len(p) - MantissaBits
        rest == SubSeq(p, MantissaBits + 2, Len(p))
    IN  IF extra = 0 THEN [bits |-> p, exp |-> f.exp]
        ELSE RoundNearestEven(SubSeq(p, 1, MantissaBits), f.exp + extra,
                              p[MantissaBits + 1],
                              \E i \in DOMAIN rest : rest[i] = 1)

\* The number the bits stand for.
RECURSIVE BitsToNat(_)
BitsToNat(bits) ==
    IF bits = <<>> THEN 0
    ELSE 2 * BitsToNat(SubSeq(bits, 1, Len(bits) - 1)) + bits[Len(bits)]

\* uint(f): the whole part of f; a value of 2^14 or more is given as
\* MaxCPURate + 1, which the clamp treats as it treats every such value.
FloatToUint(f) ==
    IF f.exp < 0 THEN 0
    ELSE IF f.exp >= 14 THEN MaxCPURate + 1
    ELSE BitsToNat(SubSeq(f.bits, 1, f.exp + 1))

\* MHzToCPURate (job_object_info.go:157-171) on a machine of ticks total MHz.
MHzToCPURate(mhz, ticks) ==
    IF mhz = 0 THEN 0
    ELSE LET r == FloatDiv(mhz, ticks)
             rate == FloatToUint(FloatMul(r, 10000))
         IN  IF rate > MaxCPURate THEN MaxCPURate
             ELSE IF rate < MinCPURate THEN MinCPURate
             ELSE rate

\* A call of MHzToCPURate: the machine, the argument, and the rate returned.
RateCall_Apply ==
    /\ rt.pc = "call"
    /\ rt' = [rt EXCEPT !.pc = "returned",
                        !.rate = MHzToCPURate(rt.mhz, CPUTotalTicks(rt.cores, rt.coreMHz))]
    /\ UNCHANGED notRate

RateInit ==
    rt \in [pc : {"call"}, cores : CoreCounts, coreMHz : CoreMHz,
            mhz : MHzInputs, rate : {0}]

\* Outside its own specification: one call, not made.
RateIdle == rt = [pc |-> "call", cores |-> 1, coreMHz |-> 2000, mhz |-> 0, rate |-> 0]

RateNext == RateCall_Apply

(***************************************************************************)
(* metrics.CPUCollector.Sample, fed by a sensor whose kernel time and user *)
(* time are fixed fractions of total time x cores, as the sensor of        *)
(* TestCPUSampler is.  Durations are whole numbers; the percents are       *)
(* float64 quotients and the Hz values float64 products turned to uint64,  *)
(* kept here as the bits of the whole part.  The source holds two versions *)
(* of Sample, told apart by the line each begins at.                       *)
(***************************************************************************)

\* The two versions of CPUCollector.Sample: part_003:324 and part_003:792.
SampleVersions == {324, 792}

\* The collectors: the number of cores and the MHz of one core.
SampleCores == {1, 2, 64}
SampleMHzPerCore == 2400

\* The fractions kernel time and user time grow by, in ten-thousandths.
Fractions == {0, 2500, 5000}

\* The total time that passes between two samples, and the number of samples
\* taken from one collector.
SampleSteps == {0, 4, 1000}
NSamples == 3

\* float64 zero, NaN and +Inf, and the division and the product that take
\* them: x / 0 is NaN for x = 0 and +Inf for x > 0, and both are kept by a
\* product with a number above 0.
FloatZero == [bits |-> <<>>, exp |-> 0]
FloatNaN == [special |-> "NaN"]
FloatInf == [special |-> "+Inf"]
IsFinite(f) == "special" \notin DOMAIN f
FDiv(x, d) ==
    IF d = 0 THEN (IF x = 0 THEN FloatNaN ELSE FloatInf)
    ELSE IF x = 0 THEN FloatZero ELSE FloatDiv(x, d)
FMul(f, k) ==
    IF ~IsFinite(f) THEN (IF k = 0 THEN FloatNaN ELSE f)
    ELSE IF f = FloatZero \/ k = 0 THEN FloatZero ELSE FloatMul(f, k)

\* What uint64(f) is for a float64 that uint64 cannot hold, which Go leaves
\* to the implementation: 0, or 2^63 as amd64 gives, as bits.
Uint64OfNonFinite == {<<>>, <<1>> \o [i \in 1..63 |-> 0]}

\* uint64(f), as the bits of the whole part of f; nonFinite is the build's
\* result for NaN and the infinities.
FloatToUint64(f, nonFinite) ==
    IF ~IsFinite(f) THEN nonFinite
    ELSE IF f = FloatZero \/ f.exp < 0 THEN <<>>
    ELSE SubSeq(f.bits, 1, f.exp + 1)

\* testSensor.MeasureCPU (part_002:20-27) at total time t: the kernel and
\* user time are the fractions k and u of t x cores.
MeasureCPU(t, cores, k, u) ==
    [TotalTime |-> t,
     KernelTime |-> (t * k * cores) \div 10000,
     UserTime |-> (t * u * cores) \div 10000]

\* CPUCollector.Sample, the arithmetic (part_003:334-354 and 802-822) on the
\* last totals t0, k0, u0 and the measurement m; version 324 scales the total
\* time by the cores, version 792 does not.
Sample(version, cores, t0, k0, u0, m, nonFinite) ==
    LET ttime == IF version = 324 THEN (m.TotalTime - t0) * cores
                 ELSE m.TotalTime - t0
        tmhz == SampleMHzPerCore * cores
        kperc == FDiv(m.KernelTime - k0, ttime)
        uperc == FDiv(m.UserTime - u0, ttime)
    IN  [DeltaTotalTime |-> m.TotalTime - t0,
         DeltaKernelTime |-> m.KernelTime - k0,
         DeltaUserTime |-> m.UserTime - k0,
         KernelHz |-> FloatToUint64(FMul(FMul(kperc, 1000000), tmhz), nonFinite),
         KernelPercent |-> kperc,
         UserHz |-> FloatToUint64(FMul(FMul(uperc, 1000000), tmhz), nonFinite),
         UserPercent |-> uperc,
         Measurement |-> m]

\* No sample yet.
NoSample == Sample(324, 1, 0, 0, 0, MeasureCPU(1, 1, 0, 0), <<>>)

\* One round of the sampling loop: the sensor is read after step more total
\* time and Sample is called, which swaps the last totals under the lock
\* (part_003:325-332, 793-800) and returns the sample.
Sample_Call(step, nonFinite) ==
    /\ cs.n < NSamples
    /\ LET m == MeasureCPU(cs.t + step, cs.Cores, cs.k, cs.u)
       IN  cs' = [cs EXCEPT
                    !.t = cs.t + step,
                    !.n = cs.n + 1,
                    !.LastTotalDuration = m.TotalTime,
                    !.LastKernelDuration = m.KernelTime,
                    !.LastUserDuration = m.UserTime,
                    !.sample = Sample(cs.version, cs.Cores, cs.LastTotalDuration,
                                      cs.LastKernelDuration, cs.LastUserDuration, m,
                                      nonFinite)]
    /\ UNCHANGED notSample

\* A new collector of a given version and its sensor.
NewCollector(version, cores, k, u) ==
    [version |-> version, Cores |-> cores, k |-> k, u |-> u, t |-> 0, n |-> 0,
     LastTotalDuration |-> 0, LastKernelDuration |-> 0, LastUserDuration |-> 0,
     sample |-> NoSample]

SampleInit ==
    cs \in {NewCollector(v, c, k, u) :
               v \in SampleVersions, c \in SampleCores,
               k \in Fractions, u \in Fractions}

\* Outside its own specification: no collector made.
SampleIdle == cs = "none"

SampleNext ==
    \E step \in SampleSteps, nonFinite \in Uint64OfNonFinite :
        Sample_Call(step, nonFinite)

\* The float64 f in ten-thousandths, rounded down.
TenThousandths(f) ==
    LET p == FMul(f, 10000)
    IN  IF ~IsFinite(p) \/ p = FloatZero \/ p.exp < 0 THEN 0
        ELSE BitsToNat(SubSeq(p.bits, 1, p.exp + 1))

(***************************************************************************)
(* The two poll loops of a container, PollStats and PollViolations, beside *)
(* the child, the reaper's close of the done channel and the job's         *)
(* completion port.  po.port is the queue of job messages not yet taken;   *)
(* a poller's pc is where its goroutine stands, calls is how many times it *)
(* has invoked its callback.                                               *)
(***************************************************************************)

\* How many limit notifications the kernel posts for one job, how many
\* violations one of them can carry, and how many samples PollStats takes.
MaxNotifications == 2
ViolationCounts == {0, 2}
MaxStats == 2

\* JobObjectMsgCode (job_object_win32.go:79-92), the codes posted here.
JobObjectMsgNotificationLimit == 11
JobObjectMsgExitProcess == 7
JobObjectMsgActiveProcessZero == 4

\* The container right after RunContained returned, with both pollers
\* started (dev_null.go:109-113).
PollStart ==
    [child |-> "running", done |-> FALSE, port |-> <<>>, posted |-> 0,
     pv |-> [pc |-> "select", calls |-> 0, pending |-> 0],
     ps |-> [pc |-> "select", calls |-> 0]]

\* The kernel posts a limit notification for the running child; n is the
\* number of violations its LimitViolationInfo carries.
Job_NotificationLimit(n) ==
    /\ po.child = "running"
    /\ po.posted < MaxNotifications
    /\ po' = [po EXCEPT
                !.posted = @ + 1,
                !.port = Append(@, [Code |-> JobObjectMsgNotificationLimit,
                                    violations |-> n])]
    /\ UNCHANGED notPoll

\* The child exits: the kernel posts the exit of the process and the job's
\* active process count reaching zero.
PollChild_Exit ==
    /\ po.child = "running"
    /\ po' = [po EXCEPT
                !.child = "exited",
                !.port = @ \o <<[Code |-> JobObjectMsgExitProcess, violations |-> 0],
                                [Code |-> JobObjectMsgActiveProcessZero,
                                 violations |-> 0]>>]
    /\ UNCHANGED notPoll

\* Container.wait (container.go:611-625): after Process.Wait has reaped the
\* child, the result is set and doneCh is closed.
PollReaper_CloseDone ==
    /\ po.child = "exited"
    /\ ~po.done
    /\ po' = [po EXCEPT !.done = TRUE]
    /\ UNCHANGED notPoll

\* PollViolations, the select at the head of the loop (container.go:512-516):
\* return if doneCh is closed, go on to the dequeue if not.
PollViolations_Select ==
    /\ po.pv.pc = "select"
    /\ po' = [po EXCEPT !.pv.pc = IF po.done THEN "returned" ELSE "dequeue"]
    /\ UNCHANGED notPoll

\* PollViolations, the blocking dequeue (container.go:517 through
\* job_object_win32.go:94-139, an INFINITE wait) and the rest of the round
\* (container.go:518-551): a message is taken; an error of the dequeue goes
\* back to the select; for a limit notification the violations are built
\* and wait for the range loop, any other message goes back to the select.
PollViolations_Dequeue(failed) ==
    /\ po.pv.pc = "dequeue"
    /\ po.port # <<>>
    /\ failed => Head(po.port).Code = JobObjectMsgNotificationLimit
    /\ LET n == IF ~failed /\ Head(po.port).Code = JobObjectMsgNotificationLimit
                THEN Head(po.port).violations ELSE 0
       IN  po' = [po EXCEPT
                    !.port = Tail(@),
                    !.pv.pending = n,
                    !.pv.pc = IF n = 0 THEN "select" ELSE "range"]
    /\ UNCHANGED notPoll

\* PollViolations, one round of the range loop (container.go:552-554):
\* fn(v) for the next violation; after the last one, back to the select.
PollViolations_Fn ==
    /\ po.pv.pc = "range"
    /\ po' = [po EXCEPT
                !.pv.calls = @ + 1,
                !.pv.pending = @ - 1,
                !.pv.pc = IF po.pv.pending = 1 THEN "select" ELSE "range"]
    /\ UNCHANGED notPoll

\* PollStats, the select (container.go:562-564) with doneCh closed: return.
PollStats_Done ==
    /\ po.ps.pc = "select"
    /\ po.done
    /\ po' = [po EXCEPT !.ps.pc = "returned"]
    /\ UNCHANGED notPoll

\* PollStats, the select (container.go:565) woken by the timer while doneCh
\* is still open.
PollStats_After ==
    /\ po.ps.pc = "select"
    /\ ~po.done
    /\ po.ps.calls < MaxStats
    /\ po' = [po EXCEPT !.ps.pc = "sample"]
    /\ UNCHANGED notPoll

\* PollStats, the body of the timer case (container.go:566-605): an error of
\* GetInformation or MemoryInfo goes back to the select, otherwise fn(stats).
PollStats_Sample(failed) ==
    /\ po.ps.pc = "sample"
    /\ po' = [po EXCEPT !.ps.pc = "select",
                        !.ps.calls = IF failed THEN @ ELSE @ + 1]
    /\ UNCHANGED notPoll

PollInit == po = PollStart

\* Outside its own specification: no container polled.
PollIdle == po = "none"

PollNext ==
    \/ \E n \in ViolationCounts : Job_NotificationLimit(n)
    \/ PollChild_Exit
    \/ PollReaper_CloseDone
    \/ PollViolations_Select
    \/ \E failed \in BOOLEAN : PollViolations_Dequeue(failed)
    \/ PollViolations_Fn
    \/ PollStats_Done
    \/ PollStats_After
    \/ \E failed \in BOOLEAN : PollStats_Sample(failed)

\* The goroutines are scheduled: a poller or the reaper that can take its
\* step takes it.  The child and the kernel's notifications are not forced.
PollFairness ==
    /\ WF_vars(PollReaper_CloseDone)
    /\ WF_vars(PollViolations_Select)
    /\ WF_vars(\E failed \in BOOLEAN : PollViolations_Dequeue(failed))
    /\ WF_vars(PollViolations_Fn)
    /\ WF_vars(PollStats_Done)
    /\ WF_vars(\E failed \in BOOLEAN : PollStats_Sample(failed))

(***************************************************************************)
(* TaskStats beside the end of StartTask.  StartTask puts the handle in    *)
(* the store and then starts taskHandle.run, which makes the Metrics and   *)
(* assigns h.metrics; TaskStats gets the handle and starts handleStats,    *)
(* whose timer fires at once and which then reads h.metrics.  sx.metrics   *)
(* is "nil" or "set"; sx.stats[c] is the TaskStats call c and its          *)
(* handleStats goroutine.                                                  *)
(***************************************************************************)

\* The TaskStats calls, and how many usages the reader of one stream takes.
StatsCalls == {1, 2}
MaxUsages == 1

StatsCallIdle == [pc |-> "idle", cancelled |-> FALSE, sent |-> 0, ret |-> "none"]

\* StartTask after startContainer has returned the handle (driver.go:218-221).
StatsStart ==
    [start |-> "put", stored |-> FALSE, run |-> "none", metrics |-> "nil",
     done |-> FALSE, stats |-> [c \in StatsCalls |-> StatsCallIdle]]

\* driver.go:222: d.taskStore.Put(tc.ID, th).
StartTask_PutHandle ==
    /\ sx.start = "put"
    /\ sx' = [sx EXCEPT !.start = "go", !.stored = TRUE]
    /\ UNCHANGED notStats

\* driver.go:223-225: go th.run(), and StartTask returns.
StartTask_GoRun ==
    /\ sx.start = "go"
    /\ sx' = [sx EXCEPT !.start = "returned", !.run = "init"]
    /\ UNCHANGED notStats

\* taskHandle.run (dev_null.go:100-107): the Metrics is made, initialised and
\* assigned to h.metrics, with no lock.
run_SetMetrics ==
    /\ sx.run = "init"
    /\ sx' = [sx EXCEPT !.run = "wait", !.metrics = "set"]
    /\ UNCHANGED notStats

\* The container's done fires: the child has exited and was reaped by the
\* reaper RunContained started, whether StartTask has stored the handle by
\* then or not.
Stats_ContainerDone ==
    /\ ~sx.done
    /\ sx' = [sx EXCEPT !.done = TRUE]
    /\ UNCHANGED notStats

\* DriverPlugin.TaskStats (driver.go:314-320) and taskHandle.stats
\* (dev_null.go:139-143): the handle is looked up; if found, the channel is
\* made and handleStats started.
TaskStats_Call(c) ==
    /\ sx.stats[c].pc = "idle"
    /\ sx' = [sx EXCEPT !.stats[c] =
                 IF sx.stored
                 THEN [@ EXCEPT !.pc = "select", !.ret = "ch"]
                 ELSE [@ EXCEPT !.pc = "returned", !.ret = "ErrTaskNotFound"]]
    /\ UNCHANGED notStats

\* The context of TaskStats call c is cancelled.
TaskStats_Cancel(c) ==
    /\ sx.stats[c].pc \in {"select", "counters", "send"}
    /\ ~sx.stats[c].cancelled
    /\ sx' = [sx EXCEPT !.stats[c].cancelled = TRUE]
    /\ UNCHANGED notStats

\* handleStats, the first select (dev_null.go:153-160): done or the context
\* end it and the deferred close(ch) runs; the timer, ready at once the first
\* time, goes on.
handleStats_Select(c) ==
    /\ sx.stats[c].pc = "select"
    /\ \/ /\ sx.done \/ sx.stats[c].cancelled
          /\ sx' = [sx EXCEPT !.stats[c].pc = "closed"]
       \/ sx' = [sx EXCEPT !.stats[c].pc = "counters"]
    /\ UNCHANGED notStats

\* dev_null.go:162: h.metrics.PerfCounters().  On a nil h.metrics the load of
\* m.perfCounters is a nil-pointer dereference and the plugin process panics.
handleStats_PerfCounters(c) ==
    /\ sx.stats[c].pc = "counters"
    /\ sx' = [sx EXCEPT !.stats[c].pc = IF sx.metrics = "nil" THEN "panic"
                                         ELSE "send"]
    /\ UNCHANGED notStats

\* handleStats, the second select (dev_null.go:213-219): done or the context
\* end it, or the reader takes the usage.
handleStats_Send(c) ==
    /\ sx.stats[c].pc = "send"
    /\ \/ /\ sx.done \/ sx.stats[c].cancelled
          /\ sx' = [sx EXCEPT !.stats[c].pc = "closed"]
       \/ /\ sx.stats[c].sent < MaxUsages
          /\ sx' = [sx EXCEPT !.stats[c].pc = "select", !.stats[c].sent = @ + 1]
    /\ UNCHANGED notStats

StatsInit == sx = StatsStart

\* Outside its own specification: no task started.
StatsIdle == sx = "none"

StatsNext ==
    \/ StartTask_PutHandle
    \/ StartTask_GoRun
    \/ run_SetMetrics
    \/ Stats_ContainerDone
    \/ \E c \in StatsCalls : TaskStats_Call(c)
    \/ \E c \in StatsCalls : TaskStats_Cancel(c)
    \/ \E c \in StatsCalls : handleStats_Select(c)
    \/ \E c \in StatsCalls : handleStats_PerfCounters(c)
    \/ \E c \in StatsCalls : handleStats_Send(c)

(***************************************************************************)
(* win32.GetSystemResources: a sync.Once around the probe of the machine,  *)
(* with the probe's error kept in a variable local to each call.  sr.once  *)
(* is "new", "running" (a caller is inside the function) or "done";        *)
(* sr.systemResources is "zero" or "set"; a caller's err is its own.       *)
(***************************************************************************)

\* The goroutines that call GetSystemResources.
ResCallers == {1, 2, 3}

ResCallIdle == [pc |-> "idle", err |-> FALSE, ret |-> "none"]

ResStart ==
    [once |-> "new", systemResources |-> "zero", process |-> "running",
     call |-> [c \in ResCallers |-> ResCallIdle]]

\* GetSystemResources is called (part_022:35-37): 'var err error' and
\* onceInit.Do.  The first caller runs the function; a caller that finds it
\* running waits in Do; a caller that finds it done goes on.
GetSystemResources_Do(c) ==
    /\ sr.process = "running"
    /\ sr.call[c].pc \in {"idle", "returned"}
    /\ sr' = IF sr.once = "new"
             THEN [sr EXCEPT !.once = "running",
                             !.call[c] = [ResCallIdle EXCEPT !.pc = "init"]]
             ELSE [sr EXCEPT !.call[c] = [ResCallIdle EXCEPT !.pc = "do"]]
    /\ UNCHANGED notRes

\* The function passed to Do (part_022:37-62): the probes succeed and
\* systemResources is set, or one fails and the caller's err is set; either
\* way the Once is done.
GetSystemResources_Init(c, ok) ==
    /\ sr.process = "running"
    /\ sr.call[c].pc = "init"
    /\ sr' = [sr EXCEPT !.once = "done",
                        !.systemResources = IF ok THEN "set" ELSE @,
                        !.call[c].err = ~ok,
                        !.call[c].pc = "check"]
    /\ UNCHANGED notRes

\* onceInit.Do returns to a caller that did not run the function, once the
\* function has returned; its own err is still nil.
GetSystemResources_DoReturns(c) ==
    /\ sr.process = "running"
    /\ sr.call[c].pc = "do"
    /\ sr.once = "done"
    /\ sr' = [sr EXCEPT !.call[c].pc = "check"]
    /\ UNCHANGED notRes

\* part_022:63-66: panic on the caller's err, else return systemResources.
GetSystemResources_Check(c) ==
    /\ sr.process = "running"
    /\ sr.call[c].pc = "check"
    /\ sr' = IF sr.call[c].err
             THEN [sr EXCEPT !.call[c].pc = "panic"]
             ELSE [sr EXCEPT !.call[c].pc = "returned",
                             !.call[c].ret = sr.systemResources]
    /\ UNCHANGED notRes

\* The panic of a caller, not recovered, ends the process.
GetSystemResources_Panic(c) ==
    /\ sr.process = "running"
    /\ sr.call[c].pc = "panic"
    /\ sr' = [sr EXCEPT !.process = "exited"]
    /\ UNCHANGED notRes

ResInit == sr = ResStart

\* Outside its own specification: GetSystemResources never called.
ResIdle == sr = "none"

ResNext ==
    \/ \E c \in ResCallers : GetSystemResources_Do(c)
    \/ \E c \in ResCallers, ok \in BOOLEAN : GetSystemResources_Init(c, ok)
    \/ \E c \in ResCallers : GetSystemResources_DoReturns(c)
    \/ \E c \in ResCallers : GetSystemResources_Check(c)
    \/ \E c \in ResCallers : GetSystemResources_Panic(c)

(***************************************************************************)
(* The violation classifier: PollNotifications reads the job's limit       *)
(* violation record when it takes a notification-limit message,            *)
(* LimitViolationInfo decodes the record's flags, and PollViolations       *)
(* turns the decoded record into LimitViolation values and hands them to   *)
(* its callback one by one.  A set of flags is the set of the bits set in  *)
(* the uint32.  vc.msgs keeps, for every message taken, the flags read;    *)
(* vc.delivered the callback's invocations, in order.                      *)
(***************************************************************************)

\* The limit flags (job_object_info_win32.go:20-46).
JOB_OBJECT_LIMIT_JOB_TIME == 4
JOB_OBJECT_LIMIT_JOB_MEMORY_HIGH == 512
JOB_OBJECT_LIMIT_KILL_ON_JOB_CLOSE == 8192
JOB_OBJECT_LIMIT_JOB_MEMORY_LOW == 32768
JOB_OBJECT_LIMIT_READ_BYTES == 65536
JOB_OBJECT_LIMIT_WRITE_BYTES == 131072
JOB_OBJECT_LIMIT_RATE_CONTROL == 262144
JOB_OBJECT_LIMIT_IO_RATE_CONTROL == 524288
JOB_OBJECT_LIMIT_NET_RATE_CONTROL == 1048576

\* The flags LimitViolationInfo looks at.
KnownLimitFlags ==
    {JOB_OBJECT_LIMIT_JOB_MEMORY_HIGH, JOB_OBJECT_LIMIT_JOB_MEMORY_LOW,
     JOB_OBJECT_LIMIT_READ_BYTES, JOB_OBJECT_LIMIT_WRITE_BYTES,
     JOB_OBJECT_LIMIT_JOB_TIME, JOB_OBJECT_LIMIT_RATE_CONTROL,
     JOB_OBJECT_LIMIT_IO_RATE_CONTROL, JOB_OBJECT_LIMIT_NET_RATE_CONTROL}

\* The LimitFlags a job's record is read with: every flag, or those of a job
\* with a CPU rate, an IO rate and a memory notification limit.
ConfiguredFlagSets ==
    {KnownLimitFlags \cup {JOB_OBJECT_LIMIT_KILL_ON_JOB_CLOSE},
     {JOB_OBJECT_LIMIT_RATE_CONTROL, JOB_OBJECT_LIMIT_IO_RATE_CONTROL,
      JOB_OBJECT_LIMIT_JOB_MEMORY_HIGH, JOB_OBJECT_LIMIT_KILL_ON_JOB_CLOSE}}

\* The ViolationLimitFlags a record is read with.
ViolatedFlagSets ==
    {{},
     {JOB_OBJECT_LIMIT_RATE_CONTROL},
     {JOB_OBJECT_LIMIT_JOB_TIME},
     {JOB_OBJECT_LIMIT_JOB_MEMORY_HIGH, JOB_OBJECT_LIMIT_JOB_MEMORY_LOW},
     {JOB_OBJECT_LIMIT_READ_BYTES, JOB_OBJECT_LIMIT_WRITE_BYTES},
     {JOB_OBJECT_LIMIT_IO_RATE_CONTROL, JOB_OBJECT_LIMIT_NET_RATE_CONTROL,
      JOB_OBJECT_LIMIT_KILL_ON_JOB_CLOSE},
     {JOB_OBJECT_LIMIT_RATE_CONTROL, JOB_OBJECT_LIMIT_IO_RATE_CONTROL,
      JOB_OBJECT_LIMIT_JOB_MEMORY_HIGH}}

\* How many messages the kernel posts to one job's port.
MaxMessages == 2

\* _JOBOBJECT_LIMIT_VIOLATION_INFORMATION_2.LimitViolationInfo
\* (job_object_info_win32.go:322-375): each field of the result is "nil" or
\* names the limit its LimitViolation was filled from; a later assignment
\* to the same field replaces an earlier one.
LimitViolationInfo(LimitFlags, ViolationLimitFlags) ==
    LET v == ViolationLimitFlags \cap LimitFlags
    IN  [HighMemoryViolation |->
            IF JOB_OBJECT_LIMIT_JOB_MEMORY_LOW \in v THEN "JobLowMemoryLimit"
            ELSE IF JOB_OBJECT_LIMIT_JOB_MEMORY_HIGH \in v THEN "JobMemoryLimit"
            ELSE "nil",
         IOReadBytesViolation |->
            IF JOB_OBJECT_LIMIT_WRITE_BYTES \in v THEN "IoWriteBytesLimit"
            ELSE IF JOB_OBJECT_LIMIT_READ_BYTES \in v THEN "IoReadBytesLimit"
            ELSE "nil",
         JobTimeViolation |->
            IF JOB_OBJECT_LIMIT_JOB_TIME \in v THEN "PerJobUserTimeLimit"
            ELSE "nil",
         CPURateViolation |->
            IF JOB_OBJECT_LIMIT_RATE_CONTROL \in v
            THEN "RateControlToleranceLimit" ELSE "nil",
         IORateViolation |->
            IF JOB_OBJECT_LIMIT_NET_RATE_CONTROL \in v
            THEN "NetRateControlToleranceLimit"
            ELSE IF JOB_OBJECT_LIMIT_IO_RATE_CONTROL \in v
            THEN "IORateControlToleranceLimit"
            ELSE "nil",
         LowMemoryViolation |-> "nil", IOWriteByesViolation |-> "nil",
         NetRateViolation |-> "nil", MemoryViolation |-> "nil"]

\* The violations PollViolations builds from a decoded record
\* (container.go:523-551): the Type of each, in the order of the appends.
Violations(vi) ==
    (IF vi.CPURateViolation # "nil" THEN <<"CPU">> ELSE <<>>)
    \o (IF vi.IORateViolation # "nil" THEN <<"IO">> ELSE <<>>)
    \o (IF vi.HighMemoryViolation # "nil" THEN <<"Memory">> ELSE <<>>)

\* The Type the classifier is specified to give a flag.
KindOfFlag(f) ==
    IF f \in {JOB_OBJECT_LIMIT_JOB_MEMORY_HIGH, JOB_OBJECT_LIMIT_JOB_MEMORY_LOW}
    THEN "Memory"
    ELSE IF f \in {JOB_OBJECT_LIMIT_JOB_TIME, JOB_OBJECT_LIMIT_RATE_CONTROL}
    THEN "CPU"
    ELSE "IO"

\* The container with its violation poller started and nothing posted.
ClassifyStart ==
    [child |-> "running", done |-> FALSE, port |-> <<>>, posted |-> 0,
     pc |-> "select", msgs |-> <<>>, pending |-> <<>>, delivered |-> <<>>]

\* The kernel posts a message with this code to the job's port.
Job_Post(code) ==
    /\ vc.child = "running"
    /\ vc.posted < MaxMessages
    /\ vc' = [vc EXCEPT !.port = Append(@, code), !.posted = @ + 1]
    /\ UNCHANGED notClassify

\* The child exits.
Classify_ChildExit ==
    /\ vc.child = "running"
    /\ vc' = [vc EXCEPT !.child = "exited"]
    /\ UNCHANGED notClassify

\* Container.wait (container.go:611-625): proc.Wait has returned for the
\* exited child and the deferred close(c.doneCh) runs.
Classify_CloseDone ==
    /\ vc.child = "exited"
    /\ ~vc.done
    /\ vc' = [vc EXCEPT !.done = TRUE]
    /\ UNCHANGED notClassify

\* container.go:511-516: the non-blocking look at doneCh.
Classify_Select ==
    /\ vc.pc = "select"
    /\ vc' = [vc EXCEPT !.pc = IF vc.done THEN "returned" ELSE "poll"]
    /\ UNCHANGED notClassify

\* PollViolations_Poll with the violations handed over in any order.
PollViolations_Poll_AnyOrder(LimitFlags, ViolationLimitFlags) ==
    /\ vc.pc = "poll"
    /\ vc.port # <<>>
    /\ Head(vc.port) # JobObjectMsgNotificationLimit
          => LimitFlags = {} /\ ViolationLimitFlags = {}
    /\ LET vs == IF Head(vc.port) = JobObjectMsgNotificationLimit
                 THEN Violations(LimitViolationInfo(LimitFlags, ViolationLimitFlags))
                 ELSE <<>>
       IN  vc' = [vc EXCEPT
                    !.port = Tail(@),
                    !.msgs = Append(@, [Code |-> Head(vc.port),
                                        LimitFlags |-> LimitFlags,
                                        ViolationLimitFlags |-> ViolationLimitFlags]),
                    !.pending = [i \in 1..Len(vs) |-> vs[Len(vs) + 1 - i]],
                    !.pc = IF vs = <<>> THEN "select" ELSE "deliver"]
    /\ UNCHANGED notClassify

\* container.go:517-551 with JobObject.PollNotifications
\* (job_object_win32.go:94-139): the poller takes the next message; for a
\* notification-limit message the job's violation record is read and
\* decoded, and the violations are built; any other message carries none.
PollViolations_Poll(LimitFlags, ViolationLimitFlags) ==
    /\ vc.pc = "poll"
    /\ vc.port # <<>>
    /\ Head(vc.port) # JobObjectMsgNotificationLimit
          => LimitFlags = {} /\ ViolationLimitFlags = {}
    /\ LET vs == IF Head(vc.port) = JobObjectMsgNotificationLimit
                 THEN Violations(LimitViolationInfo(LimitFlags, ViolationLimitFlags))
                 ELSE <<>>
       IN  vc' = [vc EXCEPT
                    !.port = Tail(@),
                    !.msgs = Append(@, [Code |-> Head(vc.port),
                                        LimitFlags |-> LimitFlags,
                                        ViolationLimitFlags |-> ViolationLimitFlags]),
                    !.pending = vs,
                    !.pc = IF vs = <<>> THEN "select" ELSE "deliver"]
    /\ UNCHANGED notClassify

\* container.go:552-554: fn(v) for the next violation of the message; after
\* the last one the loop starts over.
PollViolations_Callback ==
    /\ vc.pc = "deliver"
    /\ vc' = [vc EXCEPT
                !.delivered = Append(@, [msg |-> Len(vc.msgs),
                                         Type |-> Head(vc.pending)]),
                !.pending = Tail(@),
                !.pc = IF Tail(vc.pending) = <<>> THEN "select" ELSE "deliver"]
    /\ UNCHANGED notClassify

ClassifyInit == vc = ClassifyStart

\* Outside its own specification: no violation poller.
ClassifyIdle == vc = "none"

ClassifyNext ==
    \/ \E code \in {JobObjectMsgNotificationLimit, JobObjectMsgExitProcess} :
          Job_Post(code)
    \/ Classify_ChildExit
    \/ Classify_CloseDone
    \/ Classify_Select
    \/ \E f \in ConfiguredFlagSets \cup {{}}, v \in ViolatedFlagSets :
          PollViolations_Poll(f, v)
    \/ PollViolations_Callback

(***************************************************************************)
(* metrics.Metrics: the PerfCounters snapshot in the atomic value          *)
(* perfCounters, written by OnStats (called by the stats poller) and by    *)
(* OnViolation (called by the violation poller) under perfLock, and read   *)
(* without the lock by PerfCounters.  mx.perfLock is "free" or the caller  *)
(* that holds it; a caller's counters is its local copy of the snapshot;   *)
(* mx.published is every snapshot stored so far, mx.calls the OnViolation  *)
(* calls made of each Type.                                                *)
(***************************************************************************)

\* How many samples OnStats is called with, and how many violations
\* OnViolation.
MaxOnStats == 2
MaxOnViolation == 2

\* container.CPULimitViolation, MemoryLimitViolation, IOLimitViolation
\* (container.go:56-60).
ViolationTypes == {"CPU", "Memory", "IO"}

\* PerfCounters{} (part_003:634); Stats stands for the fields OnStats sets
\* from a sample: the number of the sample they come from.
ZeroPerfCounters ==
    [Stats |-> 0, CPUViolations |-> 0, IOViolations |-> 0, MemoryViolations |-> 0]

\* A Metrics after Init, with no call made.
MetricsStart ==
    [perfLock |-> "free", perfCounters |-> ZeroPerfCounters,
     published |-> {ZeroPerfCounters},
     stats |-> [pc |-> "idle", counters |-> ZeroPerfCounters, n |-> 0],
     viol |-> [pc |-> "idle", counters |-> ZeroPerfCounters, Type |-> "CPU", n |-> 0],
     calls |-> [t \in ViolationTypes |-> 0],
     read |-> ZeroPerfCounters]

\* OnStats_Lock without the wait for perfLock.
OnStats_Lock_NoWait ==
    /\ mx.stats.pc = "idle"
    /\ mx.stats.n < MaxOnStats
    /\ mx' = [mx EXCEPT !.perfLock = IF @ = "free" THEN "stats" ELSE @,
                        !.stats.pc = "load"]
    /\ UNCHANGED notMetrics

\* OnStats (part_003:637-638): m.perfLock.Lock().
OnStats_Lock ==
    /\ mx.stats.pc = "idle"
    /\ mx.stats.n < MaxOnStats
    /\ mx.perfLock = "free"
    /\ mx' = [mx EXCEPT !.perfLock = "stats", !.stats.pc = "load"]
    /\ UNCHANGED notMetrics

\* part_003:640: counters := m.PerfCounters().
OnStats_Load ==
    /\ mx.stats.pc = "load"
    /\ mx' = [mx EXCEPT !.stats.counters = mx.perfCounters, !.stats.pc = "store"]
    /\ UNCHANGED notMetrics

\* part_003:641-701: the fields of the sample are set in the copy and the
\* copy is stored.
OnStats_Store ==
    /\ mx.stats.pc = "store"
    /\ LET counters == [mx.stats.counters EXCEPT !.Stats = mx.stats.n + 1]
       IN  mx' = [mx EXCEPT !.perfCounters = counters,
                            !.published = @ \cup {counters},
                            !.stats.pc = "unlock"]
    /\ UNCHANGED notMetrics

\* part_003:639: the deferred m.perfLock.Unlock().
OnStats_Unlock ==
    /\ mx.stats.pc = "unlock"
    /\ mx' = [mx EXCEPT !.perfLock = IF @ = "stats" THEN "free" ELSE @,
                        !.stats.pc = "idle", !.stats.n = @ + 1]
    /\ UNCHANGED notMetrics

\* OnViolation (part_003:704-705) with a violation of Type t:
\* m.perfLock.Lock().
OnViolation_Lock(t) ==
    /\ mx.viol.pc = "idle"
    /\ mx.viol.n < MaxOnViolation
    /\ mx.perfLock = "free"
    /\ mx' = [mx EXCEPT !.perfLock = "viol", !.viol.pc = "load", !.viol.Type = t,
                        !.calls[t] = @ + 1]
    /\ UNCHANGED notMetrics

\* part_003:707: counters := m.PerfCounters().
OnViolation_Load ==
    /\ mx.viol.pc = "load"
    /\ mx' = [mx EXCEPT !.viol.counters = mx.perfCounters, !.viol.pc = "store"]
    /\ UNCHANGED notMetrics

\* part_003:708-719: the counter of the violation's Type is incremented in
\* the copy and the copy is stored.
OnViolation_Store ==
    /\ mx.viol.pc = "store"
    /\ LET c == mx.viol.counters
           counters ==
               CASE mx.viol.Type = "IO" -> [c EXCEPT !.IOViolations = @ + 1]
                 [] mx.viol.Type = "CPU" -> [c EXCEPT !.CPUViolations = @ + 1]
                 [] mx.viol.Type = "Memory" -> [c EXCEPT !.MemoryViolations = @ + 1]
       IN  mx' = [mx EXCEPT !.perfCounters = counters,
                            !.published = @ \cup {counters},
                            !.viol.pc = "unlock"]
    /\ UNCHANGED notMetrics

\* part_003:706: the deferred m.perfLock.Unlock().
OnViolation_Unlock ==
    /\ mx.viol.pc = "unlock"
    /\ mx' = [mx EXCEPT !.perfLock = IF @ = "viol" THEN "free" ELSE @,
                        !.viol.pc = "idle", !.viol.n = @ + 1]
    /\ UNCHANGED notMetrics

\* Metrics.PerfCounters (part_003:722-724), called without the lock by a
\* reader such as handleStats: one Load of the atomic value.
PerfCounters_Read ==
    /\ mx.read # mx.perfCounters
    /\ mx' = [mx EXCEPT !.read = mx.perfCounters]
    /\ UNCHANGED notMetrics

MetricsInit == mx = MetricsStart

\* Outside its own specification: no Metrics made.
MetricsIdle == mx = "none"

MetricsNext ==
    \/ OnStats_Lock
    \/ OnStats_Load
    \/ OnStats_Store
    \/ OnStats_Unlock
    \/ \E t \in ViolationTypes : OnViolation_Lock(t)
    \/ OnViolation_Load
    \/ OnViolation_Store
    \/ OnViolation_Unlock
    \/ PerfCounters_Read

\* The steps of the reaper goroutine.
ReaperNext ==
    \/ Wait_MakeDoneCh
    \/ Wait_MakeExitCh
    \/ Wait_Reap
    \/ Wait_CloseDone
    \/ wait_SetResult
    \/ wait_CloseDone

LadderInit == rc \in {RCStart(c) : c \in Configs}

\* A call of RunContained that has not started; the ladder at rest.
LadderIdle == rc = RCStart(CHOOSE c \in Configs : TRUE)

LadderNext ==
    \/ RC_CreateJobObject
    \/ RC_CurrentProcessToken
    \/ RC_CreateRestrictedToken
    \/ RC_StartProcess
    \/ RC_Assign
    \/ RC_SetExtendedLimit
    \/ RC_CheckCPU
    \/ RC_SetNotificationLimit
    \/ RC_SetCPURate
    \/ RC_Resume
    \/ Exec_SpawnWithToken
    \/ Run_GoPollStats
    \/ Run_GoPollViolations
    \/ PollStats_FirstRecord
    \/ PollViolations_FirstRecord

\* RunContained called with any Config.
InitLadder ==
    LadderInit /\ ContainerInit /\ StoreInit /\ DriverInit /\ ExecInit /\ SignalInit
    /\ RateIdle /\ SampleIdle /\ PollIdle
    /\ StatsIdle
    /\ ResIdle
    /\ ClassifyIdle
    /\ MetricsIdle

SpecLadder == InitLadder /\ [][LadderNext]_vars

\* A container just returned by RunContained.
InitContainer ==
    LadderIdle /\ ContainerInit /\ StoreInit /\ DriverInit /\ ExecInit /\ SignalInit
    /\ RateIdle /\ SampleIdle /\ PollIdle
    /\ StatsIdle
    /\ ResIdle
    /\ ClassifyIdle
    /\ MetricsIdle

SpecContainer == InitContainer /\ [][ContainerNext]_vars

\* The goroutines are scheduled: the reaper takes the step it can take, and
\* a WaitForResult whose select has a ready case returns.
ContainerFairness ==
    /\ WF_vars(ReaperNext)
    /\ \A i \in Waiters :
          WF_vars(WaitForResult_Done(i) \/ WaitForResult_Cancelled(i))

\* The steps of the container with one caller of Shutdown.
ContainerNextOneShutdown ==
    \/ Child_Exit
    \/ ReaperNext
    \/ Watcher_ExitRequested
    \/ Watcher_DoneFirst
    \/ Watcher_Break
    \/ Watcher_BreakFailed
    \/ Watcher_DoneSecond
    \/ Watcher_Timeout
    \/ Shutdown_Call(1)
    \/ Shutdown_Done(1)
    \/ Shutdown_Timeout(1)
    \/ \E i \in Waiters : WaitForResult_Call(i)
    \/ \E i \in Waiters : Context_Cancel(i)
    \/ \E i \in Waiters : WaitForResult_Done(i)
    \/ \E i \in Waiters : WaitForResult_Cancelled(i)

\* The container under a fair scheduler.
SpecContainerFair ==
    InitContainer /\ [][ContainerNextOneShutdown]_vars /\ ContainerFairness

\* A task whose container has been started, about to be put in the store.
InitStats ==
    LadderIdle /\ ContainerInit /\ StoreInit /\ DriverInit /\ ExecInit /\ SignalInit
    /\ RateIdle /\ SampleIdle /\ PollIdle
    /\ StatsInit
    /\ ResIdle
    /\ ClassifyIdle
    /\ MetricsIdle

SpecStats == InitStats /\ [][StatsNext]_vars

\* A process in which GetSystemResources has not been called.
InitRes ==
    LadderIdle /\ ContainerInit /\ StoreInit /\ DriverInit /\ ExecInit /\ SignalInit
    /\ RateIdle /\ SampleIdle /\ PollIdle
    /\ StatsIdle
    /\ ResInit
    /\ ClassifyIdle
    /\ MetricsIdle

SpecRes == InitRes /\ [][ResNext]_vars

\* A container whose violation poller has just been started.
InitClassify ==
    LadderIdle /\ ContainerInit /\ StoreInit /\ DriverInit /\ ExecInit /\ SignalInit
    /\ RateIdle /\ SampleIdle /\ PollIdle
    /\ StatsIdle
    /\ ResIdle
    /\ ClassifyInit
    /\ MetricsIdle

SpecClassify == InitClassify /\ [][ClassifyNext]_vars

\* A Metrics after Init.
InitMetrics ==
    LadderIdle /\ ContainerInit /\ StoreInit /\ DriverInit /\ ExecInit /\ SignalInit
    /\ RateIdle /\ SampleIdle /\ PollIdle
    /\ StatsIdle
    /\ ResIdle
    /\ ClassifyIdle
    /\ MetricsInit

SpecMetrics == InitMetrics /\ [][MetricsNext]_vars

\* A new, empty task store and its callers.
InitStore ==
    LadderIdle /\ ContainerInit /\ StoreInit /\ DriverInit /\ ExecInit /\ SignalInit
    /\ RateIdle /\ SampleIdle /\ PollIdle
    /\ StatsIdle
    /\ ResIdle
    /\ ClassifyIdle
    /\ MetricsIdle

SpecStore == InitStore /\ [][StoreNext]_vars

\* A new driver plugin.
InitDriver ==
    LadderIdle /\ ContainerInit /\ StoreInit /\ DriverInit /\ ExecInit /\ SignalInit
    /\ RateIdle /\ SampleIdle /\ PollIdle
    /\ StatsIdle
    /\ ResIdle
    /\ ClassifyIdle
    /\ MetricsIdle

SpecDriver == InitDriver /\ [][DriverNext]_vars

\* A running container whose Exec, Task.Wait and ExecTask are called.
InitExec ==
    LadderIdle /\ ContainerInit /\ StoreInit /\ DriverInit /\ ExecInit /\ SignalInit
    /\ RateIdle /\ SampleIdle /\ PollIdle
    /\ StatsIdle
    /\ ResIdle
    /\ ClassifyIdle
    /\ MetricsIdle

SpecExec == InitExec /\ [][ExecNext]_vars

\* A task in the store, SignalTask called on it.
InitSignal ==
    LadderIdle /\ ContainerInit /\ StoreInit /\ DriverInit /\ ExecInit /\ SignalInit
    /\ RateIdle /\ SampleIdle /\ PollIdle
    /\ StatsIdle
    /\ ResIdle
    /\ ClassifyIdle
    /\ MetricsIdle

SpecSignal == InitSignal /\ [][SignalNext]_vars

\* MHzToCPURate called with any of the limits on any of the machines.
InitRate ==
    LadderIdle /\ ContainerInit /\ StoreInit /\ DriverInit /\ ExecInit /\ SignalInit
    /\ RateInit /\ SampleIdle /\ PollIdle
    /\ StatsIdle
    /\ ResIdle
    /\ ClassifyIdle
    /\ MetricsIdle

SpecRate == InitRate /\ [][RateNext]_vars

\* A new collector of either version, on any of the machines, with any of
\* the sensors.
InitSample ==
    LadderIdle /\ ContainerInit /\ StoreInit /\ DriverInit /\ ExecInit /\ SignalInit
    /\ RateIdle /\ SampleInit /\ PollIdle
    /\ StatsIdle
    /\ ResIdle
    /\ ClassifyIdle
    /\ MetricsIdle

SpecSample == InitSample /\ [][SampleNext]_vars

\* A container with its two pollers started, under a fair scheduler.
InitPoll ==
    LadderIdle /\ ContainerInit /\ StoreInit /\ DriverInit /\ ExecInit /\ SignalInit
    /\ RateIdle /\ SampleIdle /\ PollInit
    /\ StatsIdle
    /\ ResIdle
    /\ ClassifyIdle
    /\ MetricsIdle

SpecPoll == InitPoll /\ [][PollNext]_vars /\ PollFairness

\* C1: when RunContained returns an error, no child it spawned is alive.
C1_FailedConstructionKillsChild ==
    rc.ret = "err" => ~ChildAlive(rc)

\* C2: when RunContained returns an error, no handle it opened is still open.
C2_FailedConstructionClosesHandles ==
    rc.ret = "err" =>
        /\ rc.hJob # "open" /\ rc.hCompletion # "open"
        /\ rc.hToken # "open" /\ rc.hRestricted # "open"
        /\ rc.hProc # "open"

\* C3: done has fired only when the reaper has written the Result, and a
\* WaitForResult that returned without error read that written, final Result.
C3_DoneAfterResultWritten ==
    /\ cDoneCh = "closed" =>
            /\ cResult.written
            /\ cResult.ExitStatus = pResult.ExitStatus
    /\ \A i \in Waiters :
            wf[i].ret.err = "nil" =>
                /\ wf[i].ret.written
                /\ wf[i].ret.ExitStatus = cResult.ExitStatus

\* A WaitForResult call has returned through done.
C3_Witness ==
    \E i \in Waiters : wf[i].ret.err = "nil" /\ cDoneCh = "closed"

\* The step in which a WaitForResult call of i returns on cancellation.
CancelReturn(i) ==
    /\ wf[i].pc = "waiting"
    /\ wf'[i].pc = "idle"
    /\ wf'[i].ret.err = "canceled"

\* C4: a WaitForResult that returns on cancellation returns -1, issues no
\* console-break and no kill, leaves the child and the reaper as they are;
\* the reaper can always go on once the child has exited, and a WaitForResult
\* that returns through done returns the exit status the reaper recorded, the
\* child's own when the wait on it succeeded.
C4_CancelNeverKills ==
    /\ [][\A i \in Waiters :
            CancelReturn(i) =>
                /\ wf'[i].ret.ExitStatus = -1
                /\ UNCHANGED <<child, childCode, log, reaper, watcher, exitBuf,
                               pDoneCh, cDoneCh, pResult, cResult>>]_vars
    /\ [](\A i \in Waiters :
            wf[i].ret.err = "nil" =>
                /\ wf[i].ret.ExitStatus = pResult.ExitStatus
                /\ ~pResult.Err => wf[i].ret.ExitStatus = childCode)
    /\ []((child = "exited" /\ reaper # "finished") => ENABLED ReaperNext)

\* A call was cancelled while the child ran, no kill was ever issued, the child
\* later exited on its own with code 2 and a later call returned that code.
C4_Witness ==
    \E i \in Waiters :
        /\ wf[i].detached
        /\ wf[i].ret.err = "nil"
        /\ wf[i].ret.ExitStatus = 2
        /\ \A k \in DOMAIN log : log[k].ev # "kill"

\* C5: every kill issued by the shutdown protocol comes after a console-break
\* was emitted, after the timeout of the call has elapsed, and on a child that
\* has not exited.
C5_BreakThenKillAfterTimeout ==
    \A k \in DOMAIN log :
        log[k].ev = "kill" =>
            /\ \E j \in 1..(k - 1) : log[j].ev = "break"
            /\ log[k].timedOut
            /\ log[k].alive

\* C8: Put, Get and Delete are linearizable: a mutation is made only by the
\* holder of the write lock, with no reader inside; a read only under the read
\* lock; the map is the sequential store's whenever no write is in progress;
\* and every Get returned what the sequential store held at the instant of its
\* read, never a torn entry.
C8_StoreLinearizable ==
    /\ mu.writer # 0 => mu.readers = {}
    /\ \A t \in StoreCallers :
          /\ tsCall[t].pc = "writing" <=> mu.writer = t
          /\ tsCall[t].pc = "reading" <=> t \in mu.readers
          /\ tsCall[t].got # "torn"
          /\ tsCall[t].got = tsCall[t].seq
    /\ mu.writer = 0 => ts = seqStore
    /\ \A id \in TaskIDs : ts[id] = "torn" => mu.writer # 0

\* A Get found an entry that another caller had put, and a Get found an entry
\* gone, while a write of another caller was waiting or done.
C8_Witness ==
    \E t, u \in StoreCallers :
        /\ t # u
        /\ tsCall[t].op = "Get" /\ tsCall[t].pc = "idle"
        /\ tsCall[t].got = "h2"
        /\ tsCall[u].op = "Delete" /\ tsCall[u].pc = "idle"
        /\ ts[tsCall[t].id] = "absent"

\* C6: a StartTask for an ID the store holds returns the error, and its step
\* changes neither the store nor any handle, container or child: no container
\* is started and the first task is as it was.
C6_DuplicateStartFails ==
    [][\A c \in StartCalls :
          (st[c].pc = "idle" /\ st'[c].pc # "idle" /\ taskStore[st'[c].id] # 0)
              => /\ st'[c].pc = "returned"
                 /\ st'[c].ret = "errExists"
                 /\ taskStore' = taskStore
                 /\ hd' = hd]_vars

\* A StartTask was refused for the ID of a task whose child is running, and
\* made no handle.
C6_Witness ==
    \E c \in StartCalls :
        /\ st[c].ret = "errExists"
        /\ hd[c] = NoHandle
        /\ taskStore[st[c].id] # 0
        /\ taskStore[st[c].id] # c
        /\ hd[taskStore[st[c].id]].procState = "running"
        /\ hd[taskStore[st[c].id]].child = "running"

\* C7: the channel of a WaitTask call delivers one ExitResult and no second.
C7_ExactlyOneResult ==
    \A w \in WaitCalls : wt[w].delivered <= 1

\* C9: an entry of the store is never replaced by a Put: it stays, or it is
\* deleted.
C9_PutNeverReplaces ==
    [][\A id \in TaskIDs :
          taskStore[id] # 0 => taskStore'[id] \in {taskStore[id], 0}]_vars

\* C10: a handle in the store has a procState, Running at first; and whenever
\* a reader of the handle finds procState Exited, the ExitResult is there and
\* its code is the code the child exited with.
C10_ExitedCarriesChildCode ==
    \A h \in StartCalls :
        /\ (\E id \in TaskIDs : taskStore[id] = h)
              => hd[h].procState \in {"running", "exited"}
        /\ (hd[h].procState = "exited" /\ ~hd[h].locked)
              => /\ hd[h].exitSet
                 /\ hd[h].child = "exited"
                 /\ hd[h].exitCode = hd[h].code

\* C11: an entry leaves the store only when the container of its handle has
\* reported done and its child is no longer alive.
C11_DeleteOnlyAfterDone ==
    [][\A id \in TaskIDs :
          (taskStore[id] # 0 /\ taskStore'[id] = 0)
              => /\ hd[taskStore[id]].done
                 /\ hd[taskStore[id]].child = "exited"]_vars

\* C12: a DestroyTask without force whose task, the entry of its id in the
\* store, is running when it tests for that returns the error and changes
\* neither the store nor any handle or child; every other DestroyTask of a
\* task in the store goes on, one that goes on leaves only through the Delete
\* of its entry, whatever its Shutdown did, and a Delete without force never
\* removes the entry of a running task.
C12_DestroyRefusesOnlyRunning ==
    [][\A d \in DestroyCalls :
          /\ (dt[d].pc = "test" /\ dt'[d] # dt[d] /\ taskStore[dt[d].id] # 0)
                => IF IsRunning(taskStore[dt[d].id]) /\ ~dt[d].force
                   THEN /\ dt'[d].pc = "idle"
                        /\ dt'[d].ret = "errRunning"
                        /\ taskStore' = taskStore
                        /\ hd' = hd
                   ELSE dt'[d].pc = "check"
          /\ (dt[d].pc \in {"check", "shutdown"} /\ dt'[d] # dt[d])
                => /\ dt'[d].pc \in {"shutdown", "delete"}
                   /\ dt'[d].id = dt[d].id
          /\ (dt[d].pc = "delete" /\ dt'[d] # dt[d])
                => /\ dt'[d].pc = "idle"
                   /\ dt'[d].ret = "ok"
                   /\ taskStore'[dt[d].id] = 0
                   /\ (~dt[d].force /\ taskStore[dt[d].id] # 0)
                         => ~IsRunning(taskStore[dt[d].id])]_vars

\* C13: once a task has exited and its entry has been deleted by a DestroyTask
\* that has returned, the job-object handle of its container is not open.
C13_NoJobHandleOutlivesTask ==
    \A h \in StartCalls :
        (/\ hd[h].run = "finished"
         /\ taskStore[hd[h].id] = 0
         /\ \A d \in DestroyCalls : dt[d].pc = "idle")
            => hd[h].hJob # "open"

\* C14: whenever a driver serves, and whenever a StartTask has been served or
\* a task exists, the plugin process is in its own job object and that job
\* has kill-on-job-close set; a driver whose enrollment failed serves nothing.
C14_EnrolledBeforeFirstTask ==
    LET served(c) == \/ st[c].pc \in {"start", "put"}
                     \/ st[c].pc = "returned" /\ st[c].ret # "panic"
    IN  /\ plugin.driver = "serving" => plugin.inJob /\ plugin.killOnJobClose
        /\ (\E c \in StartCalls : served(c) \/ hd[c].procState # "none")
              => plugin.inJob /\ plugin.killOnJobClose
        /\ plugin.driver \in {"nil", "crashed"}
              => /\ \A c \in StartCalls : ~served(c) /\ hd[c] = NoHandle
                 /\ \A id \in TaskIDs : taskStore[id] = 0

\* A task has been started by a driver whose process is in its job.
C14_Witness ==
    \E c \in StartCalls :
        /\ st[c].ret = "ok"
        /\ hd[c].child = "running"
        /\ plugin.inJob /\ plugin.killOnJobClose /\ plugin.hJob = "open"

\* C15: with EnforceCPU and a CPU limit below the minimum, RunContained never
\* succeeds, and when it returns the configuration error (every kernel call
\* before the validation has succeeded) no child is alive and no handle is
\* open.
C15_LowCPULimitLeaksNothing ==
    (rc.cfg.EnforceCPU /\ rc.cfg.CPUMHzLimit < MinimumCPUMHz) =>
        /\ rc.ret # "ok"
        /\ (rc.ret = "err" /\ rc.killOnJobClose) =>
              /\ ~ChildAlive(rc)
              /\ rc.hJob # "open" /\ rc.hCompletion # "open"
              /\ rc.hProc # "open"
              /\ rc.hToken # "open" /\ rc.hRestricted # "open"

\* C16: however many Shutdown calls are made, the child gets one
\* console-break at most, every call that has returned reports the same
\* outcome, and a call that was not the first never kills the running child
\* while the first call and the watcher that took its request are still
\* within the grace period.
C16_ShutdownIdempotent ==
    /\ [](Cardinality({k \in DOMAIN log : log[k].ev = "break"}) <= 1)
    /\ [](\A i, j \in ShutdownCallers :
            (sh[i].pc = "returned" /\ sh[j].pc = "returned") => sh[i].ret = sh[j].ret)
    /\ [][\A i \in ShutdownCallers :
            (/\ sh[i].pc = "select" /\ sh'[i].pc = "returned"
             /\ Len(log') > Len(log)
             /\ child = "running"
             /\ sh[i].tag = "next" /\ sh[i].doneCh = "chan")
                => ~\E j \in ShutdownCallers :
                       /\ sh[j].tag = "first" /\ sh[j].pc = "select"
                       /\ sh[j].doneCh = "chan"
                       /\ watcher = "select2"]_vars

\* C17: as long as every Shutdown call made was made after the reaper had
\* completed, no console-break and no kill has been issued, every call
\* returned nil, in the step of the call, and the cached Result is the one
\* the reaper wrote.
C17_LateShutdownIsNoOp ==
    (\A i \in ShutdownCallers : sh[i].pc # "idle" => sh[i].tag = "late") =>
        /\ log = <<>>
        /\ \A i \in ShutdownCallers :
              sh[i].pc # "idle" => sh[i].pc = "returned" /\ sh[i].ret = "nil"
        /\ (\E i \in ShutdownCallers : sh[i].pc # "idle") =>
              /\ cResult.written
              /\ cResult.ExitStatus = pResult.ExitStatus

\* C18: when Task.Wait has returned for an auxiliary process that exited on
\* its own, with no wait error and no cancellation, it returned the
\* auxiliary's exit code and no error, without calling Kill; and whenever it
\* returned -1 it returned a wait error or the cancellation error with it.
C18_WaitReturnsExitCode ==
    tw.pc = "returned" =>
        /\ tw.code = -1 => tw.err \in {"wait error", "context canceled"}
        /\ (aux.state = "exited" /\ ~tw.cancelled /\ ~tw.waitErr) =>
               (tw.code = aux.code /\ tw.err = "nil" /\ ~tw.killed)

\* C19: a return of Task.Wait under a context that was cancelled while the
\* auxiliary process was running is the cancellation return: -1 with the
\* context's error, Kill called and no auxiliary alive, the container's main
\* child as it was.
C19_CancelKillsAuxiliaryOnly ==
    [][(tw.pc # "returned" /\ tw'.pc = "returned"
        /\ tw.auxAtCancel = "running") =>
          /\ tw'.err = "context canceled"
          /\ tw'.code = -1
          /\ tw'.killed
          /\ aux'.state \notin {"suspended", "running"}
          /\ mainChild' = mainChild]_vars

\* C19, amended: a return of Task.Wait made while the context is cancelled
\* and the auxiliary process is running is the cancellation return, -1 with
\* the context's error, the auxiliary killed; a return under a cancelled
\* context that is not the cancellation return is made only when the
\* auxiliary has ended already; every return under a cancelled context
\* leaves no auxiliary alive and the container's main child as it was; and
\* the context's error is returned only under a cancelled context.
C19_CancelKillsRunningAuxiliary ==
    [][(tw.pc # "returned" /\ tw'.pc = "returned") =>
          /\ (tw.cancelled /\ aux.state = "running") =>
                 (tw'.err = "context canceled" /\ tw'.code = -1
                  /\ aux'.state = "killed")
          /\ (tw.cancelled /\ tw'.err # "context canceled") =>
                 aux.state \in {"exited", "killed"}
          /\ tw.cancelled =>
                 (mainChild' = mainChild
                  /\ aux'.state \notin {"suspended", "running"})
          /\ tw'.err = "context canceled" => tw.cancelled]_vars

\* Wait has returned the cancellation error for an auxiliary process that
\* was running when the context was cancelled, which it killed, and the main
\* child runs on.
C19_Witness ==
    /\ tw.pc = "returned"
    /\ tw.auxAtCancel = "running"
    /\ tw.err = "context canceled"
    /\ aux.state = "killed"
    /\ mainChild = "running"

\* C20: when ExecTask has returned for a known task and a non-empty argv,
\* Exec was asked to start that argv, and ExecTask either returned the
\* auxiliary's result or one of the steps that start the auxiliary failed.
C20_ExecTaskRunsArgv ==
    (et.pc = "returned" /\ et.found /\ Len(et.argv) > 0) =>
        /\ ex.cmd = et.argv
        /\ et.ret = "ok" \/ ex.ret \in {"StartProcess", "Assign", "Resume"}

\* C21: when the reaper's wait on the child returned an error (the cached
\* status is then ExitStatusError, which no child exits with), the handle's
\* procState is Unknown and its exit code 254 once run has finished.
C21_WaitErrorGivesUnknown ==
    \A h \in StartCalls :
        (hd[h].run = "finished" /\ hd[h].status = ExitStatusError)
            => (hd[h].procState = "unknown" /\ hd[h].exitCode = ExitStatusError)

\* C22: once done has fired it stays fired and the cached Result never
\* changes; every WaitForResult call that returns after that under a context
\* not cancelled returns the cached Result with no error; so all the calls
\* that returned through done, the first and every later one, hold the same
\* Result.
C22_CachedResultIsStable ==
    /\ [][/\ cDoneCh = "closed" => (cDoneCh' = "closed" /\ cResult' = cResult)
          /\ \A i \in Waiters :
                (cDoneCh = "closed" /\ wf[i].pc = "waiting" /\ ~wf[i].cancelled
                 /\ wf'[i].pc = "idle")
                    => wf'[i].ret = [ExitStatus |-> cResult.ExitStatus,
                                     err |-> "nil", written |-> TRUE]]_vars
    /\ [](\A i, j \in Waiters :
            (wf[i].ret.err = "nil" /\ wf[j].ret.err = "nil")
                => (wf[i].ret = wf[j].ret /\ wf[i].ret.ExitStatus = cResult.ExitStatus))

\* A caller whose call had returned through done has called again, and that
\* call has returned through done too.
C22_Witness ==
    \E i \in Waiters :
        wf[i].dones = "again" /\ wf[i].pc = "idle" /\ wf[i].ret.err = "nil"

\* C23: when SignalTask has returned for a task in the store, the child has
\* ended if the signal was SIGINT or SIGKILL, and if the name is not one the
\* driver knows the kill signal was delivered and the child has ended.
C23_SignalTerminatesChild ==
    (sg.pc = "returned" /\ sg.found) =>
        /\ sg.name \in {"SIGINT", "SIGKILL"} => sgProc.child = "exited"
        /\ sg.name \notin DOMAIN SignalLookup =>
              (sg.sig = "kill" /\ sgProc.child = "exited")

\* SignalTask has returned for a name the driver does not know, and the kill
\* it delivered ended a running child.
C23_Witness ==
    /\ sg.pc = "returned"
    /\ sg.name \notin DOMAIN SignalLookup
    /\ sg.ret = "nil"
    /\ sgProc.by = "signal"

\* C24: MHzToCPURate(x) is 0 exactly when x = 0, and for x > 0 it is
\* x / (cores * MHz-per-core) * 10000 truncated to a whole number and clamped
\* into [1, 10000].
C24_RateIsTruncatedQuotient ==
    rt.pc = "returned" =>
        LET exact == (rt.mhz * 10000) \div CPUTotalTicks(rt.cores, rt.coreMHz)
        IN  /\ rt.rate = 0 <=> rt.mhz = 0
            /\ rt.mhz > 0 =>
                  rt.rate = IF exact > MaxCPURate THEN MaxCPURate
                            ELSE IF exact < MinCPURate THEN MinCPURate
                            ELSE exact

\* C25: for a sensor whose kernel time and user time are the fractions k and
\* u of total time x cores, every sample reports KernelPercent within 0.01
\* of k and UserPercent within 0.01 of u, on 1 core and on more, whenever
\* total time has passed since the sample before.
C25_PercentsMatchFractions ==
    (cs.n > 0 /\ cs.sample.DeltaTotalTime > 0) =>
        LET kp == TenThousandths(cs.sample.KernelPercent)
            up == TenThousandths(cs.sample.UserPercent)
        IN  /\ kp - cs.k <= 100 /\ cs.k - kp <= 100
            /\ up - cs.u <= 100 /\ cs.u - up <= 100

\* C26: the child runs only when it is in the job and every requested limit
\* is in force: kill-on-job-close, the memory cap if one above 0 is enforced,
\* the CPU notification limit and the CPU rate if the CPU is enforced; and
\* the step that sets it running is taken from the last rung, the resume.
C26_ResumedOnlyWhenContained ==
    /\ rc.child = "running" =>
          /\ rc.inJob /\ rc.killOnJobClose
          /\ (rc.cfg.EnforceMemory /\ rc.cfg.MemoryMBLimit > 0) => rc.memoryLimit
          /\ rc.cfg.EnforceCPU => (rc.notifyCPU /\ rc.cpuRate)
    /\ (rc.pc # "returned" /\ rc.child # "none") => rc.child = "suspended"

\* RunContained returned a running child with the CPU and the memory enforced.
C26_Witness ==
    /\ rc.ret = "ok" /\ rc.child = "running"
    /\ rc.cfg.EnforceCPU /\ rc.cfg.EnforceMemory /\ rc.cfg.MemoryMBLimit > 0
    /\ rc.notifyCPU /\ rc.cpuRate /\ rc.memoryLimit

\* C27: a job object has kill-on-job-close set before any process is assigned
\* to it: the job of a container (rc) and the plugin's own job (plugin).
C27_KillOnCloseBeforeAssign ==
    /\ rc.inJob => rc.killOnJobClose
    /\ plugin.inJob => plugin.killOnJobClose

\* C28: once done has fired, PollStats and PollViolations both eventually
\* return, and a poller that has observed done never calls its callback
\* again.
C28_PollersReturnAfterDone ==
    /\ po.done ~> (po.ps.pc = "returned" /\ po.pv.pc = "returned")
    /\ [][/\ po.ps.pc = "returned" => po'.ps = po.ps
          /\ po.pv.pc = "returned" => po'.pv = po.pv]_vars

\* C29: whenever the child has terminated, the reaper eventually fires done;
\* done is closed once, by the reaper's last step and while still open, and
\* never reopens; and once done has fired every WaitForResult in progress
\* returns, with the cached result if its context is live.
C29_ReaperFiresDoneOnce ==
    /\ (child = "exited") ~> (cDoneCh = "closed" /\ reaper = "finished")
    /\ [](reaper = "closeDone" => cDoneCh = "open")
    /\ [][/\ cDoneCh = "closed" => cDoneCh' = "closed"
          /\ cDoneCh' # cDoneCh => reaper = "closeDone" /\ reaper' = "finished"]_vars
    /\ \A i \in Waiters :
          (cDoneCh = "closed" /\ wf[i].pc = "waiting") ~> (wf[i].pc = "idle")
    /\ [][\A i \in Waiters :
            (/\ cDoneCh = "closed" /\ wf[i].pc = "waiting" /\ ~wf[i].cancelled
             /\ wf'[i].pc = "idle")
                => wf'[i].ret.err = "nil"]_vars

\* The child was killed, the reaper has fired done, and a WaitForResult has
\* returned the cached result.
C29_Witness ==
    /\ child = "exited" /\ childCode = KilledExitCode
    /\ cDoneCh = "closed" /\ reaper = "finished"
    /\ \E i \in Waiters :
          wf[i].dones # "none" /\ wf[i].pc = "idle" /\ wf[i].ret.err = "nil"

\* C30: while two StartTask calls for one task ID are both in progress, at
\* most one of them has started a container and a child; and, no DestroyTask
\* having been called, the running child of a StartTask that succeeded is the
\* one the store's entry for its ID leads to.
C30_OverlappingStartsOneChild ==
    /\ \A c1, c2 \in StartCalls :
          (/\ c1 # c2
           /\ st[c1].pc \in {"start", "put"} /\ st[c2].pc \in {"start", "put"}
           /\ st[c1].id = st[c2].id)
              => ~(hd[c1].child = "running" /\ hd[c2].child = "running")
    /\ (\A d \in DestroyCalls : dt[d].pc = "idle" /\ dt[d].ret = "none")
          => \A c \in StartCalls :
                (st[c].ret = "ok" /\ hd[c].child = "running")
                    => taskStore[hd[c].id] = c

\* C31: a Shutdown called before the reaper has made exitCh and doneCh is not
\* lost and stays graceful: its exit request is accepted, it waits on the done
\* channel the reaper closes, and a kill by a Shutdown comes only after a
\* console-break and on a child that has not exited.
C31_EarlyShutdownIsGraceful ==
    /\ [][\A i \in ShutdownCallers :
            (/\ sh[i].pc = "idle" /\ sh'[i].pc # "idle"
             /\ reaper \in {"start", "makeExitCh"})
                => /\ exitBuf' # <<>>
                   /\ sh'[i].pc = "select" /\ sh'[i].doneCh = "chan"]_vars
    /\ [](\A k \in DOMAIN log :
            (log[k].by = "shutdown" /\ log[k].ev = "kill")
                => /\ \E j \in 1..(k - 1) : log[j].ev = "break"
                   /\ log[k].alive)

\* C32: whenever Exec spawns an auxiliary process on a container, the token
\* handle it passes to the spawn is open.
C32_ExecTokenIsOpen ==
    rc.execToken \in {"none", "open"}

\* C33: a task that is in the store has its metrics object, and handleStats
\* never reads h.metrics while it is nil: no TaskStats call panics.
C33_StoredTaskHasMetrics ==
    /\ sx.stored => sx.metrics = "set"
    /\ \A c \in StatsCalls :
          /\ sx.stats[c].pc = "counters" => sx.metrics = "set"
          /\ sx.stats[c].pc # "panic"

\* C34: once the context of a WaitTask call or the driver's context is
\* cancelled, handleWait needs no receiver to end: it is in its select, where
\* the cancellation takes it to the close of the channel, and never parked in
\* the send of a result.
C34_CancelledWaitNeedsNoReceiver ==
    \A w \in WaitCalls :
        (wt[w].cancelled \/ driverCtx = "cancelled")
            => wt[w].pc # "send"

\* C35: the function of the Once runs at most once, and a call of
\* GetSystemResources returns only the resources of a successful
\* initialisation: never the zero value.
C35_NoValueUnlessInitialised ==
    /\ [][\A c \in ResCallers :
            (sr.call[c].pc # "init" /\ sr'.call[c].pc = "init") => sr.once = "new"]_vars
    /\ [](\A c \in ResCallers :
            sr.call[c].pc = "returned" => sr.call[c].ret = "set")

\* The callback's invocations for the m-th message taken, in order.
DeliveredOf(m) == 
    LET OfM(d) == d.msg = m IN SelectSeq(vc.delivered, OfM)

\* The messages whose violations have all been handed to the callback.
MessagesDone ==
    {m \in 1..Len(vc.msgs) : m < Len(vc.msgs) \/ vc.pc # "deliver"}

\* The position of a violation's Type in the order of delivery.
TypeRank(t) == CASE t = "CPU" -> 1 [] t = "IO" -> 2 [] t = "Memory" -> 3

\* C36: for every limit-violation message, the number of violations handed
\* to the callback is the number of known limit flags set in both the
\* configured and the violated flags, and the Type of each is the decoding
\* of one of those flags.
C36_OneEventPerKnownFlag ==
    \A m \in MessagesDone :
        vc.msgs[m].Code = JobObjectMsgNotificationLimit =>
            LET eff == vc.msgs[m].LimitFlags \cap vc.msgs[m].ViolationLimitFlags
                           \cap KnownLimitFlags
            IN  /\ Len(DeliveredOf(m)) = Cardinality(eff)
                /\ \A i \in 1..Len(DeliveredOf(m)) :
                      \E f \in eff : DeliveredOf(m)[i].Type = KindOfFlag(f)

\* C37: the violations of one message reach the callback one at a time, in
\* one fixed order (CPU, then IO, then Memory), and all of them before the
\* next message is taken, so before any violation of a later message.
C37_DeliveredInOrderPerMessage ==
    /\ [][/\ Len(vc'.delivered) <= Len(vc.delivered) + 1
          /\ Len(vc'.msgs) > Len(vc.msgs) => vc.pending = <<>>]_vars
    /\ [](\A i, j \in 1..Len(vc.delivered) :
            i < j => \/ vc.delivered[i].msg < vc.delivered[j].msg
                     \/ /\ vc.delivered[i].msg = vc.delivered[j].msg
                        /\ TypeRank(vc.delivered[i].Type)
                               < TypeRank(vc.delivered[j].Type))
    /\ [](\A m \in MessagesDone :
            Len(DeliveredOf(m)) = Len(Violations(LimitViolationInfo(
                    vc.msgs[m].LimitFlags, vc.msgs[m].ViolationLimitFlags))))

\* Two messages have been taken, each with several violations, and all of
\* them have been handed to the callback.
C37_Witness ==
    /\ Len(vc.msgs) = 2 /\ vc.pc # "deliver"
    /\ Len(DeliveredOf(1)) >= 2 /\ Len(DeliveredOf(2)) >= 2

\* C38: a sample taken with no total time passed since the one before
\* divides nothing and keeps the percents of the sample before; no percent
\* that is NaN or infinite, and no Hz value made from one, is published.
C38_ZeroDeltaKeepsPercents ==
    /\ [][(cs'.n = cs.n + 1 /\ cs'.sample.DeltaTotalTime = 0)
            => /\ cs'.sample.KernelPercent = cs.sample.KernelPercent
               /\ cs'.sample.UserPercent = cs.sample.UserPercent]_vars
    /\ [](/\ IsFinite(cs.sample.KernelPercent)
          /\ IsFinite(cs.sample.UserPercent))

\* C39: Container.PID and Container.StartTime are set before either poller
\* is started, so what the stats poller and the violation poller find when
\* they hand over their first record is the set PID and the set start time,
\* and neither field changes once a poller runs.
C39_PidAndStartTimeBeforeRecords ==
    /\ [](/\ (rc.psPoll # "none" \/ rc.pvPoll # "none")
                => (rc.PID = "set" /\ rc.StartTime = "set")
          /\ rc.psPoll = "delivered"
                => rc.psSeen = [PID |-> "set", StartTime |-> "set"]
          /\ rc.pvPoll = "delivered"
                => rc.pvSeen = [PID |-> "set", StartTime |-> "set"])
    /\ [][(rc.psPoll # "none" \/ rc.pvPoll # "none")
            => (rc'.PID = rc.PID /\ rc'.StartTime = rc.StartTime)]_vars

\* Both pollers have handed over their first record.
C39_Witness == rc.psPoll = "delivered" /\ rc.pvPoll = "delivered"

\* The count the snapshot s holds for violations of Type t.
ViolationCount(s, t) ==
    CASE t = "IO" -> s.IOViolations
      [] t = "CPU" -> s.CPUViolations
      [] t = "Memory" -> s.MemoryViolations

\* C40: OnStats and OnViolation calls on one Metrics are serialised and no
\* update is lost: once the calls made have returned, each violation counter
\* of the snapshot is the number of OnViolation calls of that Type; no
\* counter of the snapshot ever decreases; and a snapshot read without the
\* lock is one that a writer stored.
C40_NoLostUpdate ==
    /\ []((mx.stats.pc = "idle" /\ mx.viol.pc = "idle")
            => \A t \in ViolationTypes :
                  ViolationCount(mx.perfCounters, t) = mx.calls[t])
    /\ [][\A t \in ViolationTypes :
            ViolationCount(mx'.perfCounters, t) >= ViolationCount(mx.perfCounters, t)]_vars
    /\ [](mx.read \in mx.published)
    /\ [](mx.stats.pc = "idle" \/ mx.viol.pc = "idle")

\* Both samples and two violations of different Types have gone in, and the
\* snapshot has been read without the lock.
C40_Witness ==
    /\ mx.stats.n = MaxOnStats /\ mx.viol.n = MaxOnViolation
    /\ mx.calls["CPU"] = 1 /\ mx.calls["IO"] = 1
    /\ mx.read = mx.perfCounters

====
